---- MODULE Spec2Model ----
(***************************************************************************)
(* A model of codeclaw's graph index (codeclaw/graph_index.py) and of the  *)
(* session index service that caches it (codeclaw/mcp_server.py).          *)
(*                                                                         *)
(* Text is modelled as a sequence of one-character strings, so that the    *)
(* normalisation and extraction functions are computed, not assumed.       *)
(***************************************************************************)
EXTENDS Integers, Sequences, FiniteSets, TLC

\* ------------------------------------------------------------------------
\* Bounds of the model
\* ------------------------------------------------------------------------
\* number of threads calling into one SessionIndexService
NumThreads == 2
\* number of operation calls started in one run of the service
MaxCalls == 2
\* number of times the session logs on disk change during a run
MaxWorld == 1
\* number of build/add_session calls made on one GraphIndex
MaxIndexOps == 3

\* ------------------------------------------------------------------------
\* Text helpers (Python str semantics on the characters the model uses)
\* ------------------------------------------------------------------------
Min(a, b) == IF a < b THEN a ELSE b

ToLowerMap ==
    ("A" :> "a") @@ ("B" :> "b") @@ ("C" :> "c") @@ ("D" :> "d") @@ ("E" :> "e") @@
    ("F" :> "f") @@ ("G" :> "g") @@ ("H" :> "h") @@ ("I" :> "i") @@ ("J" :> "j") @@
    ("K" :> "k") @@ ("L" :> "l") @@ ("M" :> "m") @@ ("N" :> "n") @@ ("O" :> "o") @@
    ("P" :> "p") @@ ("Q" :> "q") @@ ("R" :> "r") @@ ("S" :> "s") @@ ("T" :> "t") @@
    ("U" :> "u") @@ ("V" :> "v") @@ ("W" :> "w") @@ ("X" :> "x") @@ ("Y" :> "y") @@
    ("Z" :> "z")

LowerLetters ==
    {"a", "b", "c", "d", "e", "f", "g", "h", "i", "j", "k", "l", "m",
     "n", "o", "p", "q", "r", "s", "t", "u", "v", "w", "x", "y", "z"}

Digits == {"0", "1", "2", "3", "4", "5", "6", "7", "8", "9"}

WhiteSpace == {" ", "\t", "\n", "\r", "\f"}

\* str.lower()
Lower(s) == [i \in 1..Len(s) |-> IF s[i] \in DOMAIN ToLowerMap THEN ToLowerMap[s[i]] ELSE s[i]]

\* s[:n]
Take(s, n) == SubSeq(s, 1, Min(n, Len(s)))

RECURSIVE LStrip(_)
LStrip(s) == IF s # <<>> /\ Head(s) \in WhiteSpace THEN LStrip(Tail(s)) ELSE s

RECURSIVE RStrip(_)
RStrip(s) ==
    IF s # <<>> /\ s[Len(s)] \in WhiteSpace THEN RStrip(SubSeq(s, 1, Len(s) - 1)) ELSE s

\* str.strip()
Strip(s) == RStrip(LStrip(s))

\* needle in text
Contains(text, needle) ==
    \E i \in 1..(Len(text) - Len(needle) + 1) : SubSeq(text, i, i + Len(needle) - 1) = needle

\* str.splitlines() for the line breaks \n, \r and \r\n
RECURSIVE SplitLinesFrom(_, _)
SplitLinesFrom(text, cur) ==
    IF text = <<>> THEN (IF cur = <<>> THEN <<>> ELSE <<cur>>)
    ELSE IF Head(text) = "\r" /\ Len(text) >= 2 /\ text[2] = "\n"
         THEN <<cur>> \o SplitLinesFrom(Tail(Tail(text)), <<>>)
    ELSE IF Head(text) \in {"\n", "\r"}
         THEN <<cur>> \o SplitLinesFrom(Tail(text), <<>>)
    ELSE SplitLinesFrom(Tail(text), Append(cur, Head(text)))

SplitLines(text) == SplitLinesFrom(text, <<>>)

\* str.split(sep) for a separator of one character: cur is the piece being read
RECURSIVE SplitFrom(_, _, _)
SplitFrom(text, sep, cur) ==
    IF text = <<>> THEN <<cur>>
    ELSE IF Head(text) = sep THEN <<cur>> \o SplitFrom(Tail(text), sep, <<>>)
    ELSE SplitFrom(Tail(text), sep, Append(cur, Head(text)))

Split(text, sep) == SplitFrom(text, sep, <<>>)

\* the position of the first sep in text, which holds one
FirstIndex(text, sep) == CHOOSE i \in 1..Len(text) :
                            text[i] = sep /\ \A j \in 1..(i - 1) : text[j] # sep

\* ------------------------------------------------------------------------
\* Node naming (graph_index.py, lines 123-142)
\* ------------------------------------------------------------------------
TOOL_NODE_PREFIX == <<"t", "o", "o", "l", ":">>
FILE_NODE_PREFIX == <<"f", "i", "l", "e", ":">>
ERROR_NODE_PREFIX == <<"e", "r", "r", "o", "r", ":">>

\* number of characters of an error line that are kept
ErrorTextLen == 60
\* number of file references kept per text
MaxFileRefs == 5
\* number of error lines kept per text
MaxErrorRefs == 3
\* longest file extension the file pattern accepts
MaxExtLen == 6

normalize_node(label) == Lower(Strip(label))

tool_node(name) == TOOL_NODE_PREFIX \o normalize_node(name)

file_node(name) == FILE_NODE_PREFIX \o normalize_node(name)

error_node(msg) == ERROR_NODE_PREFIX \o normalize_node(Take(msg, ErrorTextLen))

\* ------------------------------------------------------------------------
\* Reference extraction (graph_index.py, lines 145-158)
\* ------------------------------------------------------------------------
\* \w
IsWordChar(c) == c \in LowerLetters \cup DOMAIN ToLowerMap \cup Digits \cup {"_"}

\* [\w./\-]
IsPathChar(c) == IsWordChar(c) \/ c \in {".", "/", "-"}

\* number of consecutive characters from position i on that satisfy \w
RECURSIVE WordRun(_, _)
WordRun(text, i) ==
    IF i <= Len(text) /\ IsWordChar(text[i]) THEN 1 + WordRun(text, i + 1) ELSE 0

\* last position of the run of path characters that starts at position i
RECURSIVE PathRunEnd(_, _)
PathRunEnd(text, i) ==
    IF i + 1 <= Len(text) /\ IsPathChar(text[i + 1]) THEN PathRunEnd(text, i + 1) ELSE i

\* The match of [\w./\-]+\.\w{1,6} anchored at position i: the position of its
\* last character, or 0 when the pattern does not match there.  The first group
\* is greedy, so the dot it stops before is the last one of the run that a
\* word character follows.
FileReMatchEnd(text, i) ==
    IF ~IsPathChar(text[i]) THEN 0
    ELSE LET dots == {p \in (i + 1)..PathRunEnd(text, i) :
                          text[p] = "." /\ WordRun(text, p + 1) >= 1}
         IN  IF dots = {} THEN 0
             ELSE LET p == CHOOSE q \in dots : \A r \in dots : r <= q
                  IN  p + Min(MaxExtLen, WordRun(text, p + 1))

\* _FILE_RE.findall(text), scanning from position i
RECURSIVE FileReFindAll(_, _)
FileReFindAll(text, i) ==
    IF i > Len(text) THEN <<>>
    ELSE LET e == FileReMatchEnd(text, i)
         IN  IF e = 0 THEN FileReFindAll(text, i + 1)
             ELSE <<SubSeq(text, i, e)>> \o FileReFindAll(text, e + 1)

HasSlashOrDot(m) == \E i \in 1..Len(m) : m[i] \in {"/", "."}

extract_file_refs(text) == Take(SelectSeq(FileReFindAll(text, 1), HasSlashOrDot), MaxFileRefs)

ErrorWords ==
    { <<"e", "r", "r", "o", "r">>,
      <<"e", "x", "c", "e", "p", "t", "i", "o", "n">>,
      <<"t", "r", "a", "c", "e", "b", "a", "c", "k">>,
      <<"f", "a", "i", "l", "e", "d">> }

\* _ERROR_RE.search(line)
ErrorReSearch(line) == \E w \in ErrorWords : Contains(Lower(line), w)

RECURSIVE ErrorHits(_)
ErrorHits(lines) ==
    IF lines = <<>> THEN <<>>
    ELSE IF ErrorReSearch(Head(lines))
         THEN <<Take(Strip(Head(lines)), ErrorTextLen)>> \o ErrorHits(Tail(lines))
         ELSE ErrorHits(Tail(lines))

extract_error_refs(text) == Take(ErrorHits(SplitLines(text)), MaxErrorRefs)

\* ------------------------------------------------------------------------
\* Graph abstraction, networkx backend (graph_index.py, lines 26-52)
\* A DiGraph keeps nodes, successors and predecessors in insertion order:
\* nodes and edges are sequences, the edge attributes a map keyed by edge.
\* ------------------------------------------------------------------------
EmptyMap == [x \in {} |-> 0]

SeqHas(s, x) == \E i \in 1..Len(s) : s[i] = x

AppendNew(s, x) == IF SeqHas(s, x) THEN s ELSE Append(s, x)

make_graph == [nodes |-> <<>>, edges |-> <<>>, attr |-> EmptyMap]

has_edge(graph, src, dst) == <<src, dst>> \in DOMAIN graph.attr

\* an insertion that gives an existing edge the relation of the new insertion
add_edge_OverwritesRel(graph, src, dst, rel) ==
    IF has_edge(graph, src, dst)
    THEN [graph EXCEPT !.attr[<<src, dst>>] = [weight |-> @.weight + 1, rel |-> rel]]
    ELSE [nodes |-> AppendNew(AppendNew(graph.nodes, src), dst),
          edges |-> Append(graph.edges, <<src, dst>>),
          attr  |-> (<<src, dst>> :> [weight |-> 1, rel |-> rel]) @@ graph.attr]

\* _add_edge, lines 32-36
add_edge(graph, src, dst, rel) ==
    IF has_edge(graph, src, dst)
    THEN [graph EXCEPT !.attr[<<src, dst>>].weight = @ + 1]
    ELSE [nodes |-> AppendNew(AppendNew(graph.nodes, src), dst),
          edges |-> Append(graph.edges, <<src, dst>>),
          attr  |-> (<<src, dst>> :> [weight |-> 1, rel |-> rel]) @@ graph.attr]

has_node(graph, node) == SeqHas(graph.nodes, node)

node_count(graph) == Len(graph.nodes)

edge_count(graph) == Len(graph.edges)

\* ------------------------------------------------------------------------
\* The pure-Python backend, lines 55-114.  _out maps a node to a dictionary,
\* which keeps its keys in the order of their insertion: a sequence of
\* [dst, weight, rel].  _in maps a node to a set, which has no order.
\* ------------------------------------------------------------------------
\* _PureGraph.__init__, lines 58-60
make_pure_graph == [out |-> EmptyMap, in |-> EmptyMap]

\* defaultdict: d[key] when key may be missing
DefaultGet(d, key, default) == IF key \in DOMAIN d THEN d[key] ELSE default

\* the entry of dst in the dictionary _out[src]
OutIndex(entries, dst) == CHOOSE i \in 1..Len(entries) : entries[i].dst = dst

\* _PureGraph.has_edge, lines 74-75
pure_has_edge(graph, src, dst) ==
    \E i \in 1..Len(DefaultGet(graph.out, src, <<>>)) : graph.out[src][i].dst = dst

\* _PureGraph.add_edge, lines 62-72, called by _add_edge, lines 99-100
pure_add_edge(graph, src, dst, rel) ==
    LET entries == DefaultGet(graph.out, src, <<>>)
        grown == IF \E i \in 1..Len(entries) : entries[i].dst = dst
                 THEN [entries EXCEPT ![OutIndex(entries, dst)].weight = @ + 1]
                 ELSE Append(entries, [dst |-> dst, weight |-> 1, rel |-> rel])
        out1 == (src :> grown) @@ graph.out
        in1 == (dst :> (DefaultGet(graph.in, dst, {}) \cup {src})) @@ graph.in
    IN  [out |-> IF dst \in DOMAIN out1 THEN out1 ELSE (dst :> <<>>) @@ out1,
         in  |-> IF src \in DOMAIN in1 THEN in1 ELSE (src :> {}) @@ in1]

\* _PureGraph.__contains__, lines 83-84
pure_has_node(graph, node) == node \in DOMAIN graph.out \/ node \in DOMAIN graph.in

\* _PureGraph.number_of_nodes, lines 86-88
pure_node_count(graph) == Cardinality(DOMAIN graph.out \cup DOMAIN graph.in)

\* _PureGraph.number_of_edges, lines 90-91
pure_edge_count(graph) ==
    Cardinality(UNION {{<<n, i>> : i \in 1..Len(graph.out[n])} : n \in DOMAIN graph.out})

\* _PureGraph.successors, lines 77-78: the keys of _out[node], in their order
pure_successors(graph, node) ==
    LET entries == DefaultGet(graph.out, node, <<>>)
    IN  [i \in 1..Len(entries) |-> entries[i].dst]

\* list(a set): the lists the iteration of the set can give.  The order of a
\* set of strings follows their hashes, which differ from one interpreter
\* process to the next.
ListsOf(S) ==
    {order \in [1..Cardinality(S) -> S] :
        \A i, j \in 1..Cardinality(S) : order[i] = order[j] => i = j}

\* _PureGraph.predecessors, lines 80-81: the lists it can return
pure_predecessors(graph, node) == ListsOf(DefaultGet(graph.in, node, {}))

\* _neighbors, lines 102-105: the lists it can return
pure_neighbors(graph, node) ==
    IF ~pure_has_node(graph, node) THEN {<<>>}
    ELSE {pure_successors(graph, node) \o preds : preds \in pure_predecessors(graph, node)}

\* ------------------------------------------------------------------------
\* Session indexer (graph_index.py, lines 161-200)
\* ------------------------------------------------------------------------
RECURSIVE AddSelfLoops(_, _)
AddSelfLoops(graph, nodes) ==
    IF nodes = <<>> THEN graph
    ELSE AddSelfLoops(add_edge(graph, Head(nodes), Head(nodes), "self"), Tail(nodes))

RECURSIVE AddAccessedBy(_, _, _)
AddAccessedBy(graph, frefs, tnode) ==
    IF frefs = <<>> THEN graph
    ELSE AddAccessedBy(add_edge(graph, file_node(Head(frefs)), tnode, "accessed_by"),
                       Tail(frefs), tnode)

MapFileNode(frefs) == [i \in 1..Len(frefs) |-> file_node(frefs[i])]

MapErrorNode(errs) == [i \in 1..Len(errs) |-> error_node(errs[i])]

\* a loop that indexes the tool uses without a name as well
RECURSIVE IndexToolUses_KeepsUnnamed(_, _)
IndexToolUses_KeepsUnnamed(st, tool_uses) ==
    IF tool_uses = <<>> THEN st
    ELSE LET tu == Head(tool_uses)
             tnode == tool_node(Strip(tu.tool))
         IN  IndexToolUses_KeepsUnnamed(
                 [graph |-> AddAccessedBy(st.graph, extract_file_refs(tu.input), tnode),
                  tool_seq |-> Append(st.tool_seq, tnode)],
                 Tail(tool_uses))

\* the loop over msg["tool_uses"]; st is [graph, tool_seq]
RECURSIVE IndexToolUses(_, _)
IndexToolUses(st, tool_uses) ==
    IF tool_uses = <<>> THEN st
    ELSE LET tu == Head(tool_uses)
             tool_name == Strip(tu.tool)
         IN  IF tool_name = <<>> THEN IndexToolUses(st, Tail(tool_uses))
             ELSE LET tnode == tool_node(tool_name)
                  IN  IndexToolUses(
                          [graph |-> AddAccessedBy(st.graph, extract_file_refs(tu.input), tnode),
                           tool_seq |-> Append(st.tool_seq, tnode)],
                          Tail(tool_uses))

\* the loop over the messages; st is [graph, tool_seq]
RECURSIVE IndexMessages(_, _)
IndexMessages(st, messages) ==
    IF messages = <<>> THEN st
    ELSE LET msg == Head(messages)
             g1 == AddSelfLoops(st.graph, MapFileNode(extract_file_refs(msg.content)))
             g2 == IF msg.role = "user" \/ msg.role = "tool_result"
                   THEN AddSelfLoops(g1, MapErrorNode(extract_error_refs(msg.content)))
                   ELSE g1
         IN  IndexMessages(IndexToolUses([graph |-> g2, tool_seq |-> st.tool_seq],
                                         msg.tool_uses),
                           Tail(messages))

\* a loop that inserts a transition only when the graph does not have it yet
RECURSIVE AddToolTransitions_OnlyNew(_, _, _, _)
AddToolTransitions_OnlyNew(graph, tool_seq, i, rel) ==
    IF i > Len(tool_seq) - 1 THEN graph
    ELSE AddToolTransitions_OnlyNew(
             IF has_edge(graph, tool_seq[i], tool_seq[i + 1]) THEN graph
             ELSE add_edge(graph, tool_seq[i], tool_seq[i + 1], rel),
             tool_seq, i + 1, rel)

\* the loop over consecutive pairs of tool_seq, from index i on
RECURSIVE AddToolTransitions(_, _, _, _)
AddToolTransitions(graph, tool_seq, i, rel) ==
    IF i > Len(tool_seq) - 1 THEN graph
    ELSE AddToolTransitions(add_edge(graph, tool_seq[i], tool_seq[i + 1], rel),
                            tool_seq, i + 1, rel)

\* an indexer that tags every transition co-occurs
index_session_CoOccursOnly(graph, session) ==
    LET st == IndexMessages([graph |-> graph, tool_seq |-> <<>>], session.messages)
    IN  AddToolTransitions(st.graph, st.tool_seq, 1, "co-occurs")

\* _index_session, lines 161-200
index_session(graph, session) ==
    LET is_successful == session.trajectory_type # "correction_loop"
        st == IndexMessages([graph |-> graph, tool_seq |-> <<>>], session.messages)
    IN  AddToolTransitions(st.graph, st.tool_seq, 1,
                           IF is_successful THEN "led_to_success" ELSE "co-occurs")

\* ------------------------------------------------------------------------
\* GraphIndex (graph_index.py, lines 203-275)
\* ------------------------------------------------------------------------
DigitChar == <<"1", "2", "3", "4", "5", "6", "7", "8", "9">>

\* str(id(session)): the decimal text of the address of the session object
IdText(session) == <<"9", "0", "0", DigitChar[session.oid]>>

\* str(session.get("session_id", id(session)))
SessionKey(session) ==
    IF session.session_id.present THEN session.session_id.text ELSE IdText(session)

GraphIndex_init ==
    [graph |-> make_graph, node_to_sessions |-> EmptyMap, sessions |-> EmptyMap]

\* a loop that appends the identifier at every tool use
RECURSIVE RecordToolUses_AppendsAlways(_, _, _)
RecordToolUses_AppendsAlways(nts, tool_uses, session_id) ==
    IF tool_uses = <<>> THEN nts
    ELSE LET tool_name == Strip(Head(tool_uses).tool)
         IN  IF tool_name = <<>>
             THEN RecordToolUses_AppendsAlways(nts, Tail(tool_uses), session_id)
             ELSE LET tnode == tool_node(tool_name)
                      old == IF tnode \in DOMAIN nts THEN nts[tnode] ELSE <<>>
                  IN  RecordToolUses_AppendsAlways((tnode :> Append(old, session_id)) @@ nts,
                                                   Tail(tool_uses), session_id)

\* the loop over one message's tool uses in add_session; nts is _node_to_sessions
RECURSIVE RecordToolUses(_, _, _)
RecordToolUses(nts, tool_uses, session_id) ==
    IF tool_uses = <<>> THEN nts
    ELSE LET tool_name == Strip(Head(tool_uses).tool)
         IN  IF tool_name = <<>> THEN RecordToolUses(nts, Tail(tool_uses), session_id)
             ELSE LET tnode == tool_node(tool_name)
                      old == IF tnode \in DOMAIN nts THEN nts[tnode] ELSE <<>>
                  IN  RecordToolUses((tnode :> AppendNew(old, session_id)) @@ nts,
                                     Tail(tool_uses), session_id)

RECURSIVE RecordMessages(_, _, _)
RecordMessages(nts, messages, session_id) ==
    IF messages = <<>> THEN nts
    ELSE RecordMessages(RecordToolUses(nts, Head(messages).tool_uses, session_id),
                        Tail(messages), session_id)

\* an add_session that starts the graph afresh when the identifier is stored
GraphIndex_add_session_Retracts(self, session) ==
    LET session_id == SessionKey(session)
    IN  [graph |-> index_session(IF session_id \in DOMAIN self.sessions THEN make_graph
                                 ELSE self.graph,
                                 session),
         sessions |-> (session_id :> session) @@ self.sessions,
         node_to_sessions |-> RecordMessages(self.node_to_sessions, session.messages,
                                             session_id)]

\* an add_session that keeps the record an identifier already has
GraphIndex_add_session_KeepsFirst(self, session) ==
    LET session_id == SessionKey(session)
    IN  [graph |-> index_session(self.graph, session),
         sessions |-> self.sessions @@ (session_id :> session),
         node_to_sessions |-> RecordMessages(self.node_to_sessions, session.messages,
                                             session_id)]

\* add_session, lines 227-240
GraphIndex_add_session(self, session) ==
    LET session_id == SessionKey(session)
    IN  [graph |-> index_session(self.graph, session),
         sessions |-> (session_id :> session) @@ self.sessions,
         node_to_sessions |-> RecordMessages(self.node_to_sessions, session.messages,
                                             session_id)]

\* the loop of build: an add_session call has finished and left its index
\* object (added) before the next call is made
RECURSIVE AddSessions(_, _)
AddSessions(self, sessions) ==
    IF sessions = <<>> THEN self
    ELSE CHOOSE built \in {AddSessions(added, Tail(sessions)) :
                              added \in {GraphIndex_add_session(self, Head(sessions))}} : TRUE

\* build that forgets to reset the session map
GraphIndex_build_KeepsSessions(self, sessions) ==
    AddSessions([graph |-> make_graph, node_to_sessions |-> EmptyMap,
                 sessions |-> self.sessions],
                sessions)

\* build that forgets to reset the contributor lists
GraphIndex_build_KeepsContributors(self, sessions) ==
    AddSessions([graph |-> make_graph, node_to_sessions |-> self.node_to_sessions,
                 sessions |-> EmptyMap],
                sessions)

GraphIndex_build(self, sessions) ==
    AddSessions([graph |-> make_graph, node_to_sessions |-> EmptyMap, sessions |-> EmptyMap],
                sessions)

GraphIndex_stats(self) ==
    [nodes |-> node_count(self.graph),
     edges |-> edge_count(self.graph),
     sessions |-> Cardinality(DOMAIN self.sessions),
     networkx_available |-> TRUE]

\* _neighbors, lines 38-41: graph.successors(node), in the order in which the
\* edges leaving node were created
successors(graph, node) ==
    LET leaving == SelectSeq(graph.edges, LAMBDA e : e[1] = node)
    IN  [i \in 1..Len(leaving) |-> leaving[i][2]]

\* _neighbors, lines 38-41: graph.predecessors(node), in the order in which
\* the edges entering node were created
predecessors(graph, node) ==
    LET entering == SelectSeq(graph.edges, LAMBDA e : e[2] = node)
    IN  [i \in 1..Len(entering) |-> entering[i][1]]

\* _neighbors, lines 38-41
neighbors(graph, node) ==
    IF ~has_node(graph, node) THEN <<>>
    ELSE successors(graph, node) \o predecessors(graph, node)

\* max_results of query when the caller gives none
DefaultMaxResults == 5

\* points for a direct contributor and for a contributor of a neighbor
DirectPoints == 2

NeighborPoints == 1

\* self._node_to_sessions.get(node, [])
Contributors(self, node) ==
    IF node \in DOMAIN self.node_to_sessions THEN self.node_to_sessions[node] ELSE <<>>

\* candidate_scores[sid] += points; the dictionary keeps its keys in the
\* order in which they were first given points
AddPoints(scores, sid, points) ==
    IF \E i \in 1..Len(scores) : scores[i].sid = sid
    THEN [i \in 1..Len(scores) |->
             IF scores[i].sid = sid
             THEN [sid |-> sid, score |-> scores[i].score + points]
             ELSE scores[i]]
    ELSE Append(scores, [sid |-> sid, score |-> points])

\* for sid in sids: candidate_scores[sid] += points
RECURSIVE AddPointsAll(_, _, _)
AddPointsAll(scores, sids, points) ==
    IF sids = <<>> THEN scores
    ELSE AddPointsAll(AddPoints(scores, Head(sids), points), Tail(sids), points)

\* a scoring without neighbor traversal
ScoreNeighbors_Skipped(self, scores, nbrs) == scores

\* query, lines 257-259: the loop over the neighbors of one context node
RECURSIVE ScoreNeighbors(_, _, _)
ScoreNeighbors(self, scores, nbrs) ==
    IF nbrs = <<>> THEN scores
    ELSE ScoreNeighbors(self,
                        AddPointsAll(scores, Contributors(self, Head(nbrs)), NeighborPoints),
                        Tail(nbrs))

\* query, lines 250-259: the loop over the context nodes
RECURSIVE ScoreContext(_, _, _)
ScoreContext(self, scores, context_nodes) ==
    IF context_nodes = <<>> THEN scores
    ELSE LET norm == normalize_node(Head(context_nodes))
             direct == AddPointsAll(scores, Contributors(self, norm), DirectPoints)
         IN  ScoreContext(self,
                          ScoreNeighbors(self, direct, neighbors(self.graph, norm)),
                          Tail(context_nodes))

\* sorted(..., key=lambda x: -x[1]) is stable: x goes behind every element
\* whose score is at least its own
InsertRanked(ranked, x) ==
    LET ahead == SelectSeq(ranked, LAMBDA y : y.score >= x.score)
        behind == SelectSeq(ranked, LAMBDA y : y.score < x.score)
    IN  ahead \o <<x>> \o behind

RECURSIVE SortRanked(_, _)
SortRanked(ranked, scores) ==
    IF scores = <<>> THEN ranked
    ELSE SortRanked(InsertRanked(ranked, Head(scores)), Tail(scores))

\* a slice that stops one element early
SliceTo_OneShort(s, n) ==
    IF n >= 0 THEN SubSeq(s, 1, Min(n, Len(s)) - 1)
    ELSE SubSeq(s, 1, IF Len(s) + n > 0 THEN Len(s) + n ELSE 0)

\* s[:n] for any integer n: a negative n counts from the end
SliceTo(s, n) ==
    IF n >= 0 THEN SubSeq(s, 1, Min(n, Len(s)))
    ELSE SubSeq(s, 1, IF Len(s) + n > 0 THEN Len(s) + n ELSE 0)

\* query, lines 262-266: the sessions of the ranked identifiers that the
\* session map holds
RECURSIVE CollectSessions(_, _)
CollectSessions(self, ranked) ==
    IF ranked = <<>> THEN <<>>
    ELSE (IF Head(ranked).sid \in DOMAIN self.sessions
          THEN <<self.sessions[Head(ranked).sid]>> ELSE <<>>)
         \o CollectSessions(self, Tail(ranked))

\* a query that takes an empty context for every node of the graph
GraphIndex_query_EmptyMatchesAll(self, context_nodes, max_results) ==
    CollectSessions(
        self,
        SliceTo(SortRanked(<<>>, ScoreContext(self, <<>>,
                                              IF context_nodes = <<>> THEN self.graph.nodes
                                              ELSE context_nodes)),
                max_results))

\* GraphIndex.query, lines 242-267
GraphIndex_query(self, context_nodes, max_results) ==
    IF context_nodes = <<>> THEN <<>>
    ELSE CollectSessions(
             self,
             SliceTo(SortRanked(<<>>, ScoreContext(self, <<>>, context_nodes)), max_results))

\* the _PureGraph that the _add_edge calls which made graph build: the edges
\* in the order of their creation, each as often as its weight says
RECURSIVE PureAddEdge(_, _, _, _, _)
PureAddEdge(pgraph, src, dst, rel, times) ==
    IF times = 0 THEN pgraph
    ELSE PureAddEdge(pure_add_edge(pgraph, src, dst, rel), src, dst, rel, times - 1)

RECURSIVE PureAddEdges(_, _, _)
PureAddEdges(pgraph, graph, edges) ==
    IF edges = <<>> THEN pgraph
    ELSE LET e == Head(edges)
         IN  PureAddEdges(PureAddEdge(pgraph, e[1], e[2], graph.attr[e].rel,
                                      graph.attr[e].weight),
                          graph, Tail(edges))

pure_graph_of(graph) == PureAddEdges(make_pure_graph, graph, graph.edges)

\* query, lines 250-259, when _neighbors is that of lines 102-105: the score
\* maps the loop over the context nodes can end with
RECURSIVE PureScoreContext(_, _, _, _)
PureScoreContext(self, pgraph, scores, context_nodes) ==
    IF context_nodes = <<>> THEN {scores}
    ELSE LET norm == normalize_node(Head(context_nodes))
             direct == AddPointsAll(scores, Contributors(self, norm), DirectPoints)
         IN  UNION {PureScoreContext(self, pgraph, ScoreNeighbors(self, direct, nbrs),
                                     Tail(context_nodes)) :
                       nbrs \in pure_neighbors(pgraph, norm)}

\* GraphIndex.query, lines 242-267, without networkx: the lists it can return
pure_query(self, context_nodes, max_results) ==
    IF context_nodes = <<>> THEN {<<>>}
    ELSE {CollectSessions(self, SliceTo(SortRanked(<<>>, scores), max_results)) :
             scores \in PureScoreContext(self, pure_graph_of(self.graph), <<>>,
                                         context_nodes)}

\* ------------------------------------------------------------------------
\* Session records the model draws its inputs from.  oid is the identity of
\* the Python object; session_id.present is FALSE when the key is missing.
\* ------------------------------------------------------------------------
ToolUse(tool, input) == [tool |-> tool, input |-> input]

Message(role, content, tool_uses) ==
    [role |-> role, content |-> content, tool_uses |-> tool_uses]

\* the project every session of the pool belongs to
TxtProject == <<"t", "e", "s", "t", "p", "r", "o", "j", "e", "c", "t">>

Session(oid, present, text, trajectory_type, messages) ==
    [oid |-> oid, session_id |-> [present |-> present, text |-> text],
     project |-> TxtProject, trajectory_type |-> trajectory_type, messages |-> messages]

TxtRead == <<"R", "e", "a", "d">>
TxtBash == <<" ", "B", "a", "s", "h", " ">>
TxtWrite == <<"W", "r", "i", "t", "e">>
TxtS1 == <<"s", "1">>
TxtS2 == <<"s", "2">>
TxtS3 == <<"s", "3">>
TxtFooPath == <<"s", "r", "c", "/", "F", "o", "o", ".", "p", "y">>
TxtBoom == <<"f", "i", "x", " ", "a", ".", "p", "y", "\n", "E", "r", "r", "o", "r", ":", " ", "b", "o", "o", "m">>

\* s1: Read (on src/Foo.py) then Bash
SessA ==
    Session(1, TRUE, TxtS1, "sft_clean",
            << Message("assistant", <<>>,
                       << ToolUse(TxtRead, TxtFooPath), ToolUse(TxtBash, <<>>) >>) >>)

\* s2: Bash then Write
SessB ==
    Session(2, TRUE, TxtS2, "sft_clean",
            << Message("assistant", <<>>,
                       << ToolUse(TxtBash, <<>>), ToolUse(TxtWrite, <<>>) >>) >>)

\* s1 again (same identifier as SessA): an error report, then Write twice and
\* a tool use without a name, in a correction loop
SessC ==
    Session(3, TRUE, TxtS1, "correction_loop",
            << Message("user", TxtBoom, <<>>),
               Message("assistant", <<>>,
                       << ToolUse(TxtWrite, <<>>), ToolUse(<<" ">>, TxtFooPath),
                          ToolUse(TxtWrite, <<>>) >>) >>)

\* a session without identifier and without tool uses
SessD ==
    Session(4, FALSE, <<>>, "sft_clean", << Message("user", TxtFooPath, <<>>) >>)

\* s3: Read three times, so that the transition Read -> Read occurs twice
SessE ==
    Session(5, TRUE, TxtS3, "sft_clean",
            << Message("assistant", <<>>,
                       << ToolUse(TxtRead, <<>>), ToolUse(TxtRead, <<>>),
                          ToolUse(TxtRead, <<>>) >>) >>)

SessionPool == <<SessA, SessB, SessC, SessD, SessE>>

PoolSet == {SessionPool[i] : i \in 1..Len(SessionPool)}

\* the session lists handed to build: every list of at most two pool sessions
BuildInputs ==
    {<<>>} \cup {<<a>> : a \in PoolSet} \cup {<<a, b>> : a \in PoolSet, b \in PoolSet}

NoCall == [op |-> "none", arg |-> <<>>, before |-> GraphIndex_init]

\* ------------------------------------------------------------------------
\* The session logs on disk, as the discovery and parsing collaborators see
\* them.  world counts the changes made to them; every change adds projects.
\* ------------------------------------------------------------------------
\* the sessions parse_project_sessions returns for the i-th project
ProjectSessions(i) ==
    CASE i = 1 -> <<SessA>>
      [] i = 2 -> <<SessC, SessB, SessD>>
      [] i = 3 -> <<SessE>>
      [] OTHER -> <<>>

\* discover_projects(): the projects present in world w
WorldProjects(w) == IF w = 0 THEN <<>> ELSE [i \in 1..(w + 1) |-> i]

\* the loop over projects in refresh: sessions.extend(parse(project)) for each
RECURSIVE ParseAll(_)
ParseAll(projects) ==
    IF projects = <<>> THEN <<>>
    ELSE ProjectSessions(Head(projects)) \o ParseAll(Tail(projects))

\* ------------------------------------------------------------------------
\* State
\* ------------------------------------------------------------------------
VARIABLES
    gi,       \* one GraphIndex object: [graph, node_to_sessions, sessions]
    giOps,    \* number of build/add_session calls made on it
    giLast,   \* the last call made on it: [op, arg, before], before = the state it found
    pg,       \* a _PureGraph object that receives the _add_edge calls made on gi.graph
    world,                \* version of the session logs on disk
    svc_sessions,         \* self._sessions: None, or a reference to a list object
    svc_index,            \* self._index: None, or a reference to an index object
    svc_project_count,    \* self._project_count
    svc_refresh_count,    \* self._refresh_count
    svc_last_refresh_ms,  \* self._last_refresh_ms: 0, or the time measured by refresh r
    lockOwner,            \* self._lock: the thread that owns the RLock, or NoThread
    lockDepth,            \* self._lock: how many times its owner has acquired it
    heapList,             \* the session list objects, by reference
    heapIdx,              \* the index objects, by reference
    nextRef,              \* number of refresh() executions started (each allocates one reference)
    pc,                   \* where each thread is
    loc,                  \* the local variables of each thread's call
    calls,                \* number of operation calls started
    hist                  \* history: what has happened so far (read by the claims only)

indexVars == <<gi, giOps, giLast, pg>>

cacheVars ==
    <<svc_sessions, svc_index, svc_project_count, svc_refresh_count, svc_last_refresh_ms>>

lockVars == <<lockOwner, lockDepth>>

heapVars == <<heapList, heapIdx>>

serviceVars == <<world, cacheVars, lockVars, heapVars, nextRef, pc, loc, calls, hist>>

vars == <<indexVars, serviceVars>>

Threads == 1..NumThreads

None == 0

NoThread == 0

Ops == {"sessions", "index", "meta", "refresh_index"}

\* index_stats = {}
EmptyStats == [nodes |-> 0, edges |-> 0, sessions |-> 0, networkx_available |-> FALSE,
               empty |-> TRUE]

DictStats(st) == [nodes |-> st.nodes, edges |-> st.edges, sessions |-> st.sessions,
                  networkx_available |-> st.networkx_available, empty |-> FALSE]

\* the values meta() reads under the lock; by_* name the refresh that installed each
NoSnap ==
    [valid |-> FALSE, session_count |-> 0, project_count |-> 0, refresh_count |-> 0,
     last_refresh_ms |-> 0, index |-> None,
     by_sessions |-> 0, by_project_count |-> 0, by_refresh_count |-> 0]

NoLocals ==
    [op |-> "none",         \* the operation this thread is executing
     ref |-> None,          \* refresh: the reference of the list it creates
     projects |-> <<>>,     \* refresh: projects
     index |-> None,        \* refresh: index
     snap |-> NoSnap,       \* meta: count, project_count, refresh_count, last_refresh_ms, index
     swaps |-> 0]           \* number of state swaps this call has completed

NoHistory ==
    [threadsUsed |-> 0,     \* threads that have made a call
     discoverCalls |-> 0,   \* calls of the discovery collaborator
     explicit |-> FALSE,    \* some refresh_index call was made
     raised |-> FALSE,      \* some call ended by an exception
     swapsDone |-> 0,       \* refresh() executions that left their with-block
     accessReturned |-> FALSE,  \* some sessions()/index() call has returned normally
     publishedLists |-> {},    \* session lists that were ever installed
     publishedIndexes |-> {},  \* index objects that were ever installed
     installedBy |-> [project_count |-> 0, refresh_count |-> 0]]

ServiceInit ==
    /\ world = 0
    /\ svc_sessions = None
    /\ svc_index = None
    /\ svc_project_count = 0
    /\ svc_refresh_count = 0
    /\ svc_last_refresh_ms = 0
    /\ lockOwner = NoThread
    /\ lockDepth = 0
    /\ heapList = EmptyMap
    /\ heapIdx = EmptyMap
    /\ nextRef = 0
    /\ pc = [t \in Threads |-> "idle"]
    /\ loc = [t \in Threads |-> NoLocals]
    /\ calls = 0
    /\ hist = NoHistory

IndexInit ==
    /\ gi = GraphIndex_init
    /\ giOps = 0
    /\ giLast = NoCall
    /\ pg = make_pure_graph

Init == IndexInit /\ ServiceInit

\* ------------------------------------------------------------------------
\* Operations on one GraphIndex
\* ------------------------------------------------------------------------
\* index.build(sessions)
Build(sessions) ==
    /\ giOps < MaxIndexOps
    /\ gi' = GraphIndex_build(gi, sessions)
    /\ giOps' = giOps + 1
    /\ giLast' = [op |-> "build", arg |-> sessions, before |-> gi]
    /\ UNCHANGED <<pg, serviceVars>>

\* index.add_session(session)
AddSession(session) ==
    /\ giOps < MaxIndexOps
    /\ gi' = GraphIndex_add_session(gi, session)
    /\ giOps' = giOps + 1
    /\ giLast' = [op |-> "add_session", arg |-> <<session>>, before |-> gi]
    /\ UNCHANGED <<pg, serviceVars>>

IndexNext ==
    \/ \E sessions \in BuildInputs : Build(sessions)
    \/ \E session \in PoolSet : AddSession(session)

SpecIndex == Init /\ [][IndexNext]_vars

\* ------------------------------------------------------------------------
\* Operations on one graph: gi.graph is the graph, and _add_edge is applied
\* to it with nodes and relations drawn from small sets
\* ------------------------------------------------------------------------
EdgeNodes == {tool_node(TxtRead), tool_node(TxtBash)}

EdgeRels == {"led_to_success", "co-occurs"}

\* _add_edge(graph, src, dst, rel=rel)
AddEdge(src, dst, rel) ==
    /\ giOps < MaxIndexOps
    /\ gi' = [gi EXCEPT !.graph = add_edge(gi.graph, src, dst, rel)]
    /\ giOps' = giOps + 1
    /\ giLast' = [op |-> "add_edge", arg |-> <<src, dst, rel>>, before |-> gi]
    /\ pg' = pure_add_edge(pg, src, dst, rel)
    /\ UNCHANGED serviceVars

GraphNext == \E src \in EdgeNodes, dst \in EdgeNodes, rel \in EdgeRels : AddEdge(src, dst, rel)

SpecGraph == Init /\ [][GraphNext]_vars

\* ------------------------------------------------------------------------
\* build_index_from_jsonl, lines 282-298.  A file is Missing or a sequence of
\* lines; a line is a text as it is written, or the text json.dumps writes
\* for a session record, which is given by the record.
\* ------------------------------------------------------------------------
TextLine(text) == [kind |-> "text", text |-> text]

RecordLine(session) == [kind |-> "record", session |-> session]

LineBlank == TextLine(<<" ", " ", "\n">>)
LineNotJson == TextLine(<<"n", "o", "t", "-", "j", "s", "o", "n", "\n">>)
LineNumber == TextLine(<<"4", "2", "\n">>)

\* line.strip(), line 290: the text json.dumps writes has no space around it
StripLine(line) ==
    IF line.kind = "text" THEN TextLine(Strip(line.text)) ELSE line

\* not line, line 291
IsBlankLine(line) == line.kind = "text" /\ line.text = <<>>

\* json.loads(line), line 294: the record for the text of a record, a number
\* for a text of digits, and JSONDecodeError for the other texts of the model
JsonLoads(line) ==
    IF line.kind = "record" THEN [raises |-> FALSE, is_dict |-> TRUE, value |-> line.session]
    ELSE IF line.text # <<>> /\ \A i \in 1..Len(line.text) : line.text[i] \in Digits
         THEN [raises |-> FALSE, is_dict |-> FALSE, value |-> line.text]
    ELSE [raises |-> TRUE]

\* lines 289-297: the loop over the lines of one file.  add_session calls
\* session.get (line 163) before it changes anything, so a value that is no
\* dictionary raises AttributeError, which the except clause does not catch:
\* the loops and the function are left.
RECURSIVE LoadLines(_, _)
LoadLines(load, lines) ==
    IF lines = <<>> \/ load.raised THEN load
    ELSE LET line == StripLine(Head(lines))
             parsed == JsonLoads(line)
         IN  IF IsBlankLine(line) THEN LoadLines(load, Tail(lines))
             ELSE IF parsed.raises THEN LoadLines(load, Tail(lines))
             ELSE IF ~parsed.is_dict THEN [load EXCEPT !.raised = TRUE]
             ELSE LoadLines([load EXCEPT !.index = GraphIndex_add_session(@, parsed.value)],
                            Tail(lines))

\* path.exists() is false
Missing == [exists |-> FALSE, lines |-> <<>>]

File(lines) == [exists |-> TRUE, lines |-> lines]

\* lines 285-288: the loop over the paths
RECURSIVE LoadFiles(_, _)
LoadFiles(load, files) ==
    IF files = <<>> \/ load.raised THEN load
    ELSE IF ~Head(files).exists THEN LoadFiles(load, Tail(files))
    ELSE LoadFiles(LoadLines(load, Head(files).lines), Tail(files))

\* build_index_from_jsonl(paths), lines 282-298: files are the files at the
\* paths; raised tells that the function was left by an exception
build_index_from_jsonl(files) ==
    LoadFiles([index |-> GraphIndex_init, raised |-> FALSE], files)

\* the lines and the files of the model
LinePool == {LineBlank, LineNotJson, LineNumber, RecordLine(SessA), RecordLine(SessB),
             RecordLine(SessC)}

FilePool ==
    {Missing, File(<<>>)} \cup {File(<<a>>) : a \in LinePool}
        \cup {File(<<a, b>>) : a \in LinePool, b \in LinePool}

PathLists == {<<f>> : f \in FilePool} \cup {<<f, g>> : f \in FilePool, g \in FilePool}

\* index = build_index_from_jsonl(paths).  The function makes a new index, so
\* what it gives does not depend on the calls made before: it is called once.
BuildFromJsonl(files) ==
    /\ giOps = 0
    /\ LET load == build_index_from_jsonl(files)
       IN  /\ gi' = IF load.raised THEN gi ELSE load.index
           /\ giLast' = [op |-> "build_index_from_jsonl", arg |-> files, before |-> gi,
                         raised |-> load.raised]
    /\ giOps' = giOps + 1
    /\ UNCHANGED <<pg, serviceVars>>

JsonlNext == \E files \in PathLists : BuildFromJsonl(files)

SpecJsonl == Init /\ [][JsonlNext]_vars

\* ------------------------------------------------------------------------
\* Queries on one GraphIndex
\* ------------------------------------------------------------------------
\* context nodes as a caller writes them
NodeRead == <<"t", "o", "o", "l", ":", "r", "e", "a", "d">>
NodeBash == <<"t", "o", "o", "l", ":", "b", "a", "s", "h">>
NodeWrite == <<"t", "o", "o", "l", ":", "w", "r", "i", "t", "e">>
NodeFoo == <<"f", "i", "l", "e", ":", "s", "r", "c", "/", "f", "o", "o", ".", "p", "y">>
NodeBoom == <<"e", "r", "r", "o", "r", ":", "e", "r", "r", "o", "r", ":", " ", "b", "o", "o", "m">>
NodeReadRaw == <<" ", "T", "O", "O", "L", ":", "R", "e", "a", "d", " ">>
NodeMissing == <<"t", "o", "o", "l", ":", "g", "r", "e", "p">>

Contexts ==
    {<<>>, <<NodeRead>>, <<NodeBash>>, <<NodeWrite>>, <<NodeFoo>>, <<NodeBoom>>,
     <<NodeReadRaw>>, <<NodeRead, NodeBash>>, <<NodeRead, NodeRead>>, <<NodeMissing>>}

\* values of max_results: negative, zero, small, and the default
MaxResultsValues == {-1, 0, 1, 2, DefaultMaxResults}

\* r1 .. r6: six sessions that use Read once, with different identifiers
Reader(k) ==
    Session(10 + k, TRUE, <<"r", DigitChar[k]>>, "sft_clean",
            << Message("assistant", <<>>, << ToolUse(TxtRead, <<>>) >>) >>)

ManyReaders == [k \in 1..(DefaultMaxResults + 1) |-> Reader(k)]

\* x: Read then Write; y: Bash then Write; z: Read; w: Bash.  tool:write has
\* the two predecessors tool:read and tool:bash
User(oid, name, tools) ==
    Session(oid, TRUE, <<name>>, "sft_clean",
            << Message("assistant", <<>>, [i \in 1..Len(tools) |-> ToolUse(tools[i], <<>>)]) >>)

TwoPredecessors ==
    << User(21, "x", <<TxtRead, TxtWrite>>), User(22, "y", <<TxtBash, TxtWrite>>),
       User(23, "z", <<TxtRead>>), User(24, "w", <<TxtBash>>) >>

\* a: Read, Write, Read, Bash; y: Write then Bash; z: Read.  tool:write is a
\* successor and a predecessor of tool:read, and tool:bash a successor
SharedNeighbors ==
    << User(31, "a", <<TxtRead, TxtWrite, TxtRead, TxtBash>>),
       User(32, "y", <<TxtWrite, TxtBash>>), User(33, "z", <<TxtRead>>) >>

\* index.query(context_nodes, max_results); query assigns to no attribute of
\* the index
Query(context_nodes, max_results) ==
    /\ giOps < MaxIndexOps
    /\ gi' = gi
    /\ giOps' = giOps + 1
    /\ giLast' = [op |-> "query", arg |-> <<context_nodes, max_results>>, before |-> gi,
                  ret |-> GraphIndex_query(gi, context_nodes, max_results)]
    /\ UNCHANGED <<pg, serviceVars>>

\* A scenario is a sequence of index operations and then one query: a query
\* leaves the index as it was, so what follows a query follows without it.
Unqueried == giLast.op # "query"

QueryNext ==
    \/ Unqueried /\ \E sessions \in BuildInputs \cup {ManyReaders, TwoPredecessors, SharedNeighbors} :
                        Build(sessions)
    \/ Unqueried /\ \E session \in PoolSet : AddSession(session)
    \/ Unqueried /\ \E context_nodes \in Contexts, max_results \in MaxResultsValues :
                        Query(context_nodes, max_results)

SpecQuery == Init /\ [][QueryNext]_vars

\* ------------------------------------------------------------------------
\* SessionIndexService (mcp_server.py, lines 103-202), one action per step of
\* a thread.  A step is atomic when it touches only the thread's own objects.
\* Acquiring the lock is one step with the first access made under it, and
\* releasing it one step with the last: until it acquires, and once it has
\* released, a thread does nothing that another thread can tell apart.
\* ------------------------------------------------------------------------
Goto(t, label) == pc' = [pc EXCEPT ![t] = label]

\* a lock that its owner cannot acquire again
CanAcquire_NotReentrant(t) == lockOwner = NoThread

\* threading.RLock.acquire can return: no other thread owns the lock
CanAcquire(t) == lockOwner \in {NoThread, t}

\* the lock after thread t has acquired it keep times more than it released
LockAfter(t, keep) ==
    /\ lockDepth' = lockDepth + keep
    /\ lockOwner' = IF lockDepth + keep = 0 THEN NoThread ELSE t

\* self._sessions is None or self._index is None
NothingLoaded == svc_sessions = None \/ svc_index = None

\* refresh, lines 146-147: the clock is read and the anonymizer made; the
\* objects this execution creates are known by the reference allocated here
RefreshStart(t) ==
    /\ nextRef' = nextRef + 1
    /\ loc' = [loc EXCEPT ![t].ref = nextRef + 1]
    /\ Goto(t, "rf_discover")

\* A tool handler, or any caller, enters one operation of the service.
\* Threads are alike, so they are numbered in the order of their first calls.
Call(t, o) ==
    /\ pc[t] = "idle"
    /\ t <= hist.threadsUsed + 1
    /\ calls < MaxCalls
    /\ calls' = calls + 1
    /\ IF o = "refresh_index"
       THEN /\ nextRef' = nextRef + 1
            /\ loc' = [loc EXCEPT ![t] = [NoLocals EXCEPT !.op = o, !.ref = nextRef + 1]]
            /\ Goto(t, "rf_discover")
       ELSE /\ nextRef' = nextRef
            /\ loc' = [loc EXCEPT ![t] = [NoLocals EXCEPT !.op = o]]
            /\ Goto(t, IF o = "meta" THEN "mt_read" ELSE "el_check1")
    /\ hist' = [hist EXCEPT
                  !.threadsUsed = IF t > @ THEN t ELSE @,
                  !.explicit = @ \/ o = "refresh_index"]
    /\ UNCHANGED <<indexVars, world, cacheVars, lockVars, heapVars>>

\* a first check that looks at the session list only
EnsureLoadedCheck_SessionsOnly(t) ==
    /\ pc[t] = "el_check1"
    /\ Goto(t, IF svc_sessions = None THEN "el_check2" ELSE "ret_read")
    /\ UNCHANGED <<indexVars, world, cacheVars, lockVars, heapVars, nextRef, loc, calls,
                   hist>>

\* _ensure_loaded, line 140: the first check, made without the lock.  The two
\* attributes, once set, are never None again, so reading them in one step
\* gives the outcomes that reading them one after the other gives.
EnsureLoadedCheck(t) ==
    /\ pc[t] = "el_check1"
    /\ Goto(t, IF NothingLoaded THEN "el_check2" ELSE "ret_read")
    /\ UNCHANGED <<indexVars, world, cacheVars, lockVars, heapVars, nextRef, loc, calls,
                   hist>>

\* a second check that always finds the service unloaded
EnsureLoadedRecheck_Always(t) ==
    /\ pc[t] = "el_check2"
    /\ CanAcquire(t)
    /\ LockAfter(t, 1) /\ RefreshStart(t)
    /\ UNCHANGED <<indexVars, world, cacheVars, heapVars, calls, hist>>

\* _ensure_loaded, lines 141-143: with self._lock, the second check; then
\* refresh() is entered with the lock held, or the with-block is left
EnsureLoadedRecheck(t) ==
    /\ pc[t] = "el_check2"
    /\ CanAcquire(t)
    /\ IF NothingLoaded
       THEN LockAfter(t, 1) /\ RefreshStart(t)
       ELSE LockAfter(t, 0) /\ Goto(t, "ret_read") /\ UNCHANGED <<nextRef, loc>>
    /\ UNCHANGED <<indexVars, world, cacheVars, heapVars, calls, hist>>

\* _ensure_loaded: refresh() has returned and the with-block is left
EnsureLoadedUnlock(t) ==
    /\ pc[t] = "el_unlock"
    /\ lockOwner = t
    /\ LockAfter(t, -1)
    /\ Goto(t, "ret_read")
    /\ UNCHANGED <<indexVars, world, cacheVars, heapVars, nextRef, loc, calls, hist>>

\* sessions(), line 173, and index(), line 177: the read of self._sessions or
\* self._index for the return value, and the return
ReturnRead(t) ==
    /\ pc[t] = "ret_read"
    /\ loc' = [loc EXCEPT ![t] = NoLocals]
    /\ Goto(t, "idle")
    /\ hist' = [hist EXCEPT !.accessReturned = TRUE]
    /\ UNCHANGED <<indexVars, world, cacheVars, lockVars, heapVars, nextRef, calls>>

\* refresh, lines 148-158: projects = discover(); sessions = []; the parsed
\* sessions of every project are appended.  The logs are read in one step:
\* they do not change between discovery and parsing.
RefreshDiscover(t) ==
    /\ pc[t] = "rf_discover"
    /\ loc' = [loc EXCEPT ![t].projects = WorldProjects(world)]
    /\ heapList' = (loc[t].ref :> (<<>> \o ParseAll(WorldProjects(world)))) @@ heapList
    /\ Goto(t, "rf_build")
    /\ hist' = [hist EXCEPT !.discoverCalls = @ + 1]
    /\ UNCHANGED <<indexVars, world, cacheVars, lockVars, heapIdx, nextRef, calls>>

\* a refresh that rebuilds the installed index object instead of making one
RefreshBuild_InPlace(t) ==
    /\ pc[t] = "rf_build"
    /\ LET target == IF svc_index = None THEN loc[t].ref ELSE svc_index
       IN  /\ heapIdx' = (target :> GraphIndex_build(GraphIndex_init, heapList[loc[t].ref]))
                             @@ heapIdx
           /\ loc' = [loc EXCEPT ![t].index = target]
    /\ Goto(t, "rf_set_sessions")
    /\ UNCHANGED <<indexVars, world, cacheVars, lockVars, heapList, nextRef, calls, hist>>

\* refresh, lines 160-161: index = factory(); index.build(sessions)
RefreshBuild(t) ==
    /\ pc[t] = "rf_build"
    /\ heapIdx' = (loc[t].ref :> GraphIndex_build(GraphIndex_init, heapList[loc[t].ref]))
                      @@ heapIdx
    /\ loc' = [loc EXCEPT ![t].index = loc[t].ref]
    /\ Goto(t, "rf_set_sessions")
    /\ UNCHANGED <<indexVars, world, cacheVars, lockVars, heapList, nextRef, calls, hist>>

\* a failure that leaves the lock with the thread of the lazy load
RefreshFail_KeepsLock(t) ==
    /\ pc[t] \in {"rf_discover", "rf_build"}
    /\ UNCHANGED lockVars
    /\ loc' = [loc EXCEPT ![t] = NoLocals]
    /\ Goto(t, "idle")
    /\ hist' = [hist EXCEPT
                  !.raised = TRUE,
                  !.discoverCalls = @ + (IF pc[t] = "rf_discover" THEN 1 ELSE 0)]
    /\ UNCHANGED <<indexVars, world, cacheVars, heapVars, nextRef, calls>>

\* refresh, lines 147-161: a collaborator (discovery, parsing, the index
\* factory or build) raises.  The exception leaves refresh and, in a lazy
\* load, the with-block of _ensure_loaded, which releases the lock.
RefreshFail(t) ==
    /\ pc[t] \in {"rf_discover", "rf_build"}
    /\ IF lockOwner = t THEN LockAfter(t, -1) ELSE UNCHANGED lockVars
    /\ loc' = [loc EXCEPT ![t] = NoLocals]
    /\ Goto(t, "idle")
    /\ hist' = [hist EXCEPT
                  !.raised = TRUE,
                  !.discoverCalls = @ + (IF pc[t] = "rf_discover" THEN 1 ELSE 0)]
    /\ UNCHANGED <<indexVars, world, cacheVars, heapVars, nextRef, calls>>

\* refresh, lines 163-164: with self._lock, then the session list is installed
RefreshSetSessions(t) ==
    /\ pc[t] = "rf_set_sessions"
    /\ CanAcquire(t)
    /\ LockAfter(t, 1)
    /\ svc_sessions' = loc[t].ref
    /\ Goto(t, "rf_set_index")
    /\ hist' = [hist EXCEPT !.publishedLists = @ \cup {loc[t].ref}]
    /\ UNCHANGED <<indexVars, world, svc_index, svc_project_count, svc_refresh_count,
                   svc_last_refresh_ms, heapVars, nextRef, loc, calls>>

\* refresh, line 165
RefreshSetIndex(t) ==
    /\ pc[t] = "rf_set_index"
    /\ svc_index' = loc[t].index
    /\ Goto(t, "rf_set_project_count")
    /\ hist' = [hist EXCEPT !.publishedIndexes = @ \cup {loc[t].index}]
    /\ UNCHANGED <<indexVars, world, svc_sessions, svc_project_count, svc_refresh_count,
                   svc_last_refresh_ms, lockVars, heapVars, nextRef, loc, calls>>

\* refresh, line 166
RefreshSetProjectCount(t) ==
    /\ pc[t] = "rf_set_project_count"
    /\ svc_project_count' = Len(loc[t].projects)
    /\ Goto(t, "rf_set_count")
    /\ hist' = [hist EXCEPT !.installedBy.project_count = loc[t].ref]
    /\ UNCHANGED <<indexVars, world, svc_sessions, svc_index, svc_refresh_count,
                   svc_last_refresh_ms, lockVars, heapVars, nextRef, loc, calls>>

\* a counter set from the number of references handed out
RefreshSetCount_NotIncrement(t) ==
    /\ pc[t] = "rf_set_count"
    /\ svc_refresh_count' = loc[t].ref
    /\ Goto(t, "rf_set_ms")
    /\ hist' = [hist EXCEPT !.installedBy.refresh_count = loc[t].ref]
    /\ UNCHANGED <<indexVars, world, svc_sessions, svc_index, svc_project_count,
                   svc_last_refresh_ms, lockVars, heapVars, nextRef, loc, calls>>

\* refresh, line 167: self._refresh_count += 1, read and written under the lock
RefreshSetCount(t) ==
    /\ pc[t] = "rf_set_count"
    /\ svc_refresh_count' = svc_refresh_count + 1
    /\ Goto(t, "rf_set_ms")
    /\ hist' = [hist EXCEPT !.installedBy.refresh_count = loc[t].ref]
    /\ UNCHANGED <<indexVars, world, svc_sessions, svc_index, svc_project_count,
                   svc_last_refresh_ms, lockVars, heapVars, nextRef, loc, calls>>

\* refresh, line 168: the time this execution measured is stored, and the
\* with-block is left; line 169 then calls meta()
RefreshSetMs(t) ==
    /\ pc[t] = "rf_set_ms"
    /\ lockOwner = t
    /\ svc_last_refresh_ms' = loc[t].ref
    /\ LockAfter(t, -1)
    /\ loc' = [loc EXCEPT ![t].swaps = @ + 1, ![t].projects = <<>>, ![t].index = None]
    /\ Goto(t, "mt_read")
    /\ hist' = [hist EXCEPT !.swapsDone = @ + 1]
    /\ UNCHANGED <<indexVars, world, svc_sessions, svc_index, svc_project_count,
                   svc_refresh_count, heapVars, nextRef, calls>>

\* meta, lines 180-185: with self._lock, the five reads, and the with-block is
\* left.  The thread owns the lock and every write is made by a thread that
\* owns it, so the reads are one step.
MetaRead(t) ==
    /\ pc[t] = "mt_read"
    /\ CanAcquire(t)
    /\ loc' = [loc EXCEPT ![t].snap =
                  [valid |-> TRUE,
                   session_count |-> IF svc_sessions = None THEN 0
                                     ELSE Len(heapList[svc_sessions]),
                   project_count |-> svc_project_count,
                   refresh_count |-> svc_refresh_count,
                   last_refresh_ms |-> svc_last_refresh_ms,
                   index |-> svc_index,
                   by_sessions |-> svc_sessions,
                   by_project_count |-> hist.installedBy.project_count,
                   by_refresh_count |-> hist.installedBy.refresh_count]]
    /\ Goto(t, "mt_stats")
    /\ UNCHANGED <<indexVars, world, cacheVars, lockVars, heapVars, nextRef, calls, hist>>

\* what an index object may do when asked for stats()
StatsOutcomes == {"dict", "raises", "not_dict", "no_attr"}

\* meta that asks the installed index, not the one it read under the lock
MetaDict_ReadsIndexLate(t, outcome) ==
    LET snap == loc[t].snap
        called == svc_index # None /\ outcome # "no_attr"
    IN  [raised |-> FALSE,
         session_count |-> snap.session_count,
         project_count |-> snap.project_count,
         refresh_count |-> snap.refresh_count,
         last_refresh_ms |-> snap.last_refresh_ms,
         index_stats |-> IF called /\ outcome = "dict"
                         THEN DictStats(GraphIndex_stats(heapIdx[svc_index]))
                         ELSE EmptyStats,
         stats_of |-> svc_index]

\* meta without the try/except around index.stats()
MetaDict_NoExcept(t, outcome) ==
    LET snap == loc[t].snap
        called == snap.index # None /\ outcome # "no_attr"
    IN  [raised |-> called /\ outcome = "raises",
         session_count |-> snap.session_count,
         project_count |-> snap.project_count,
         refresh_count |-> snap.refresh_count,
         last_refresh_ms |-> snap.last_refresh_ms,
         index_stats |-> IF called /\ outcome = "dict"
                         THEN DictStats(GraphIndex_stats(heapIdx[snap.index]))
                         ELSE EmptyStats,
         stats_of |-> snap.index]

\* meta, lines 187-202: what meta() hands to its caller when the index it
\* read under the lock answers stats() with outcome.  index_stats is {} when
\* there is no index, when it has no stats attribute, when stats() raises and
\* when it returns something that is no dictionary.  stats_of names the index
\* that was asked; raised tells whether meta ended by an exception.
MetaDict(t, outcome) ==
    LET snap == loc[t].snap
        called == snap.index # None /\ outcome # "no_attr"
    IN  [raised |-> FALSE,
         session_count |-> snap.session_count,
         project_count |-> snap.project_count,
         refresh_count |-> snap.refresh_count,
         last_refresh_ms |-> snap.last_refresh_ms,
         index_stats |-> IF called /\ outcome = "dict"
                         THEN DictStats(GraphIndex_stats(heapIdx[snap.index]))
                         ELSE EmptyStats,
         stats_of |-> snap.index]

\* refresh_index, lines 220-221: the results of the payload, [], and its meta
RefreshIndexPayload(meta) == [ok |-> TRUE, results |-> <<>>, meta |-> meta]

\* meta, lines 187-202, returns: to the caller of meta(), or to refresh, which
\* returns to refresh_index or to _ensure_loaded.  An exception would leave
\* every frame and the with-block of _ensure_loaded.
MetaStats(t) ==
    /\ pc[t] = "mt_stats"
    /\ \E outcome \in StatsOutcomes :
          IF MetaDict(t, outcome).raised
          THEN /\ IF lockOwner = t THEN LockAfter(t, -1) ELSE UNCHANGED lockVars
               /\ loc' = [loc EXCEPT ![t] = NoLocals]
               /\ Goto(t, "idle")
               /\ hist' = [hist EXCEPT !.raised = TRUE]
          ELSE /\ UNCHANGED <<lockVars, hist>>
               /\ IF loc[t].op \in {"sessions", "index"}
                  THEN /\ loc' = [loc EXCEPT ![t].snap = NoSnap]
                       /\ Goto(t, "el_unlock")
                  ELSE /\ loc' = [loc EXCEPT ![t] = NoLocals]
                       /\ Goto(t, "idle")
    /\ UNCHANGED <<indexVars, world, cacheVars, heapVars, nextRef, calls>>

\* sessions are written to the logs on disk: new projects appear
EnvChange ==
    /\ world < MaxWorld
    /\ world' = world + 1
    /\ UNCHANGED <<indexVars, cacheVars, lockVars, heapVars, nextRef, pc, loc, calls, hist>>

Next ==
    \/ \E t \in Threads, o \in Ops : Call(t, o)
    \/ \E t \in Threads : EnsureLoadedCheck(t)
    \/ \E t \in Threads : EnsureLoadedRecheck(t)
    \/ \E t \in Threads : EnsureLoadedUnlock(t)
    \/ \E t \in Threads : ReturnRead(t)
    \/ \E t \in Threads : RefreshDiscover(t)
    \/ \E t \in Threads : RefreshBuild(t)
    \/ \E t \in Threads : RefreshFail(t)
    \/ \E t \in Threads : RefreshSetSessions(t)
    \/ \E t \in Threads : RefreshSetIndex(t)
    \/ \E t \in Threads : RefreshSetProjectCount(t)
    \/ \E t \in Threads : RefreshSetCount(t)
    \/ \E t \in Threads : RefreshSetMs(t)
    \/ \E t \in Threads : MetaRead(t)
    \/ \E t \in Threads : MetaStats(t)
    \/ EnvChange

Spec == Init /\ [][Next]_vars

\* the steps of thread t, other than the build, that a call in progress
\* takes when no collaborator raises
Proceed(t) ==
    \/ EnsureLoadedCheck(t)
    \/ EnsureLoadedRecheck(t)
    \/ EnsureLoadedUnlock(t)
    \/ ReturnRead(t)
    \/ RefreshDiscover(t)
    \/ RefreshSetSessions(t)
    \/ RefreshSetIndex(t)
    \/ RefreshSetProjectCount(t)
    \/ RefreshSetCount(t)
    \/ RefreshSetMs(t)
    \/ MetaRead(t)
    \/ MetaStats(t)

\* index.build is not where thread t is.  RefreshBuild(t) needs nothing but
\* the thread to be there, and every step from there leaves, so that
\* []<>BuildReturned(t) says of the behaviours of Spec what
\* WF_vars(RefreshBuild(t)) says.
BuildReturned(t) == pc[t] # "rf_build"

\* The interpreter gives every thread that can run a turn, and the
\* collaborators return: a thread whose next step stays possible takes it,
\* and a build that was begun ends.
SpecLive ==
    /\ Spec
    /\ \A t \in Threads : WF_vars(Proceed(t))
    /\ \A t \in Threads : []<>BuildReturned(t)

\* ------------------------------------------------------------------------
\* The memory tools of the server (mcp_server.py).  A payload is the object
\* that json.dumps writes out: ok, results or error, and meta.
\* ------------------------------------------------------------------------
\* _session_summary, line 68: tool_uses[:20]
SummaryToolLimit == 20

\* _session_summary, lines 56-59, for one message: the stripped tool names
\* that are not empty
ToolNamesOf(tool_uses) ==
    SelectSeq([i \in 1..Len(tool_uses) |-> Strip(tool_uses[i].tool)],
              LAMBDA tool_name : tool_name # <<>>)

\* _session_summary, lines 55-59: the loop over the messages
RECURSIVE AllToolNames(_)
AllToolNames(messages) ==
    IF messages = <<>> THEN <<>>
    ELSE ToolNamesOf(Head(messages).tool_uses) \o AllToolNames(Tail(messages))

\* _session_summary, lines 53-72; rank = None adds no rank.  The sessions of
\* the model have no model and no start_time key, so get() gives None.
session_summary(session, rank) ==
    LET summary == [session_id |-> session.session_id,
                    project |-> session.project,
                    trajectory_type |-> session.trajectory_type,
                    model |-> None,
                    start_time |-> None,
                    message_count |-> Len(session.messages),
                    tool_sequence |-> Take(AllToolNames(session.messages), SummaryToolLimit)]
    IN  IF rank = None THEN summary ELSE summary @@ [rank |-> rank]

\* _ok_payload, lines 42-43
ok_payload(results, meta) == [ok |-> TRUE, results |-> results, meta |-> meta]

\* _error_payload, lines 46-50
error_payload(code, message, meta) ==
    [ok |-> FALSE, error |-> [code |-> code, message |-> message], meta |-> meta]

\* _parse_context_nodes, line 79
AllowedPrefixes == {<<"t", "o", "o", "l">>, <<"f", "i", "l", "e">>, <<"e", "r", "r", "o", "r">>}

\* a loop that drops the tokens it cannot use
RECURSIVE ParseTokens_DropsInvalid(_, _, _)
ParseTokens_DropsInvalid(raws, nodes, invalid_tokens) ==
    IF raws = <<>> THEN [nodes |-> nodes, invalid_tokens |-> invalid_tokens]
    ELSE LET token == Strip(Head(raws))
             lowered == Lower(token)
             colon == FirstIndex(lowered, ":")
             prefix == SubSeq(lowered, 1, colon - 1)
             value == Strip(SubSeq(lowered, colon + 1, Len(lowered)))
             normalized == prefix \o <<":">> \o value
         IN  IF token = <<>> \/ ~SeqHas(lowered, ":")
             THEN ParseTokens_DropsInvalid(Tail(raws), nodes, invalid_tokens)
             ELSE IF prefix \notin AllowedPrefixes \/ value = <<>> \/ SeqHas(nodes, normalized)
             THEN ParseTokens_DropsInvalid(Tail(raws), nodes, invalid_tokens)
             ELSE ParseTokens_DropsInvalid(Tail(raws), Append(nodes, normalized),
                                           invalid_tokens)

\* _parse_context_nodes, lines 81-98: the loop over context.split(","); the
\* set seen holds the nodes collected so far
RECURSIVE ParseTokens(_, _, _)
ParseTokens(raws, nodes, invalid_tokens) ==
    IF raws = <<>> THEN [nodes |-> nodes, invalid_tokens |-> invalid_tokens]
    ELSE LET token == Strip(Head(raws))
             lowered == Lower(token)
             colon == FirstIndex(lowered, ":")
             prefix == SubSeq(lowered, 1, colon - 1)
             value == Strip(SubSeq(lowered, colon + 1, Len(lowered)))
             normalized == prefix \o <<":">> \o value
         IN  IF token = <<>> THEN ParseTokens(Tail(raws), nodes, invalid_tokens)
             ELSE IF ~SeqHas(lowered, ":")
                  THEN ParseTokens(Tail(raws), nodes, Append(invalid_tokens, token))
             ELSE IF prefix \notin AllowedPrefixes \/ value = <<>>
                  THEN ParseTokens(Tail(raws), nodes, Append(invalid_tokens, token))
             ELSE IF SeqHas(nodes, normalized)
                  THEN ParseTokens(Tail(raws), nodes, invalid_tokens)
             ELSE ParseTokens(Tail(raws), Append(nodes, normalized), invalid_tokens)

\* _parse_context_nodes, lines 75-100
parse_context_nodes(context) == ParseTokens(Split(context, ","), <<>>, <<>>)

\* search_past_solutions, lines 243-248: the needle is in the content of some
\* message, or in the project
SessionMatches(session, needle) ==
    \/ \E i \in 1..Len(session.messages) : Contains(Lower(session.messages[i].content), needle)
    \/ Contains(Lower(session.project), needle)

\* a loop that stops once it holds more than max_results summaries
RECURSIVE SearchLoop_BreaksLate(_, _, _, _)
SearchLoop_BreaksLate(sessions, needle, max_results, summaries) ==
    IF sessions = <<>> THEN summaries
    ELSE IF ~SessionMatches(Head(sessions), needle)
         THEN SearchLoop_BreaksLate(Tail(sessions), needle, max_results, summaries)
    ELSE LET grown == Append(summaries, session_summary(Head(sessions), Len(summaries) + 1))
         IN  IF Len(grown) > max_results THEN grown
             ELSE SearchLoop_BreaksLate(Tail(sessions), needle, max_results, grown)

\* search_past_solutions, lines 241-251: the loop over service.sessions(),
\* left by break once max_results summaries are held
RECURSIVE SearchLoop(_, _, _, _)
SearchLoop(sessions, needle, max_results, summaries) ==
    IF sessions = <<>> THEN summaries
    ELSE IF ~SessionMatches(Head(sessions), needle)
         THEN SearchLoop(Tail(sessions), needle, max_results, summaries)
    ELSE LET grown == Append(summaries, session_summary(Head(sessions), Len(summaries) + 1))
         IN  IF Len(grown) >= max_results THEN grown
             ELSE SearchLoop(Tail(sessions), needle, max_results, grown)

\* a search that validates max_results before the query
search_past_solutions_MaxFirst(sessions, meta, query, max_results) ==
    LET needle == Strip(Lower(query))
        summaries == SearchLoop(sessions, needle, max_results, <<>>)
    IN  IF max_results <= 0
        THEN error_payload("invalid_max_results", "max_results must be greater than 0.",
                           [max_results |-> max_results] @@ meta)
        ELSE IF needle = <<>>
        THEN error_payload("invalid_query", "query must be non-empty text.",
                           [provided_query |-> query] @@ meta)
        ELSE ok_payload(summaries,
                        [query |-> needle, returned |-> Len(summaries),
                         max_results |-> max_results] @@ meta)

\* search_past_solutions, lines 224-259: sessions is what service.sessions()
\* returns and meta what service.meta() returns
search_past_solutions(sessions, meta, query, max_results) ==
    LET needle == Strip(Lower(query))
        summaries == SearchLoop(sessions, needle, max_results, <<>>)
    IN  IF needle = <<>>
        THEN error_payload("invalid_query", "query must be non-empty text.",
                           [provided_query |-> query] @@ meta)
        ELSE IF max_results <= 0
        THEN error_payload("invalid_max_results", "max_results must be greater than 0.",
                           [max_results |-> max_results] @@ meta)
        ELSE ok_payload(summaries,
                        [query |-> needle, returned |-> Len(summaries),
                         max_results |-> max_results] @@ meta)

\* find_similar_sessions, line 288: the summaries with rank = i + 1 for the
\* i-th session, i counted from 0
RankSessions(sessions) ==
    [i \in 1..Len(sessions) |-> session_summary(sessions[i], (i - 1) + 1)]

\* find_similar_sessions, lines 263-297: index is what service.index() returns
find_similar_sessions(index, meta, context, max_results) ==
    LET parsed == parse_context_nodes(context)
        results == RankSessions(GraphIndex_query(index, parsed.nodes, max_results))
    IN  IF max_results <= 0
        THEN error_payload("invalid_max_results", "max_results must be greater than 0.",
                           [max_results |-> max_results] @@ meta)
        ELSE IF parsed.nodes = <<>>
        THEN error_payload("invalid_context",
                           "context must include at least one node (tool:, file:, or error:).",
                           [invalid_tokens |-> parsed.invalid_tokens, context |-> context]
                               @@ meta)
        ELSE ok_payload(results,
                        [context_nodes |-> parsed.nodes,
                         invalid_tokens |-> parsed.invalid_tokens,
                         returned |-> Len(results), max_results |-> max_results,
                         ranking |-> "graph_similarity"] @@ meta)

\* str(None)
TxtNone == <<"N", "o", "n", "e">>

\* get_session, line 364: str(session.get("session_id")); a session without
\* the key gives str(None)
StrOfSessionId(session) ==
    IF session.session_id.present THEN session.session_id.text ELSE TxtNone

\* get_session, lines 363-365: the first session of the list whose identifier
\* is lookup; found tells whether there is one
RECURSIVE FirstWithId(_, _)
FirstWithId(sessions, lookup) ==
    IF sessions = <<>> THEN [found |-> FALSE]
    ELSE IF StrOfSessionId(Head(sessions)) = lookup
         THEN [found |-> TRUE, session |-> Head(sessions)]
    ELSE FirstWithId(Tail(sessions), lookup)

\* get_session, lines 351-370: sessions is what service.sessions() returns
get_session(sessions, meta, session_id) ==
    LET lookup == Strip(session_id)
        hit == FirstWithId(sessions, lookup)
    IN  IF lookup = <<>>
        THEN error_payload("invalid_session_id", "session_id must be non-empty.",
                           [session_id |-> session_id] @@ meta)
        ELSE IF hit.found
        THEN ok_payload(hit.session, [session_id |-> lookup] @@ meta)
        ELSE error_payload("session_not_found",
                           "Session ID was not found in the local cache.",
                           [session_id |-> lookup] @@ meta)

\* texts a client passes as session_id
IdS1 == TxtS1
IdS2Padded == <<" ", "s", "2", " ">>
IdUnknown == <<"z", "z">>
IdBlank == <<" ", " ">>
IdUpper == <<"S", "1">>

LookupIds == {IdS1, IdS2Padded, IdUnknown, IdBlank, IdUpper, TxtNone}

TxtUnknown == <<"u", "n", "k", "n", "o", "w", "n">>

\* get_project_patterns, line 315: str(session.get("project") or "unknown")
ProjectName(session) == IF session.project = <<>> THEN TxtUnknown ELSE session.project

\* the stripped, non-empty tool names of a list of sessions, in order
RECURSIVE ToolNamesOfSessions(_)
ToolNamesOfSessions(sessions) ==
    IF sessions = <<>> THEN <<>>
    ELSE AllToolNames(Head(sessions).messages) \o ToolNamesOfSessions(Tail(sessions))

\* get_project_patterns, lines 323-328: tool_counts of the sessions of one
\* project
ToolCounts(sessions) ==
    LET names == ToolNamesOfSessions(sessions)
    IN  [tool_name \in {names[i] : i \in 1..Len(names)} |->
            Cardinality({i \in 1..Len(names) : names[i] = tool_name})]

\* get_project_patterns, lines 299-336: sessions is what service.sessions()
\* returns; project is [given, text], given = FALSE for project=None
get_project_patterns(sessions, meta, project) ==
    LET project_filter == IF project.given THEN Strip(project.text) ELSE <<>>
        matched == SelectSeq(sessions,
                             LAMBDA session : project_filter = <<>>
                                              \/ ProjectName(session) = project_filter)
        per_project ==
            [name \in {ProjectName(matched[i]) : i \in 1..Len(matched)} |->
                LET own == SelectSeq(matched, LAMBDA session : ProjectName(session) = name)
                IN  [session_count |-> Len(own), tool_counts |-> ToolCounts(own)]]
    IN  IF project.given /\ project_filter = <<>>
        THEN error_payload("invalid_project",
                           "project filter must be non-empty when provided.",
                           [project |-> project.text] @@ meta)
        ELSE ok_payload(per_project,
                        [project_filter |-> IF project.given THEN project_filter ELSE TxtNone,
                         matched_projects |-> Cardinality(DOMAIN per_project)] @@ meta)

\* values a client passes as project: none, the project of the sessions with
\* blanks around it, another project, and blanks only
ProjectFilters ==
    {[given |-> FALSE, text |-> <<>>],
     [given |-> TRUE, text |-> <<" ">> \o TxtProject \o <<" ">>],
     [given |-> TRUE, text |-> TxtUnknown],
     [given |-> TRUE, text |-> <<" ", " ">>]}

\* texts a client passes as query
QueryTest == <<"t", "e", "s", "t">>
QueryBoom == <<" ", "B", "o", "o", "m", " ">>
QueryNone == <<"x", "y", "z">>
QueryBlank == <<" ", " ", " ">>
QueryFoo == <<"F", "O", "O">>

QueryError == <<"E", "R", "R", "O", "R">>

Queries == {QueryTest, QueryBoom, QueryNone, QueryBlank, QueryFoo, QueryError}

\* texts a client passes as context
CtxRead == <<"t", "o", "o", "l", ":", "r", "e", "a", "d">>
CtxBashWrite == <<"t", "o", "o", "l", ":", "b", "a", "s", "h", ",", " ", "t", "o", "o", "l", ":", "w", "r", "i", "t", "e">>
CtxTwice == <<" ", "T", "O", "O", "L", ":", "R", "e", "a", "d", " ", ",", "t", "o", "o", "l", ":", "r", "e", "a", "d">>
CtxNoPrefix == <<"r", "e", "a", "d">>
CtxEmpty == <<>>
CtxMixed == <<"t", "o", "o", "l", ":", "w", "r", "i", "t", "e", ",", "b", "o", "g", "u", "s", ":", "x", ",", ",", "f", "i", "l", "e", ":">>
CtxBoom == <<"e", "r", "r", "o", "r", ":", "e", "r", "r", "o", "r", ":", " ", "b", "o", "o", "m">>

CtxExample == <<"t", "o", "o", "l", ":", "b", "a", "s", "h", ",", " ", "f", "i", "l", "e", ":", "x", ".", "p", "y", ",", " ", "b", "a", "d", "t", "o", "k", "e", "n">>

ContextTexts ==
    {CtxRead, CtxBashWrite, CtxTwice, CtxNoPrefix, CtxEmpty, CtxMixed, CtxBoom, CtxExample}

\* ------------------------------------------------------------------------
\* The tools as one client calls them, one call after the other.  With one
\* thread no step of another thread falls between the steps of a call, so a
\* call is one step: the lazy load, the handler, and its payload.  giLast
\* records the call and the payload, gi the index the service holds after it.
\* ------------------------------------------------------------------------
\* meta, lines 179-202, on a real GraphIndex when no other thread runs
ServiceMeta ==
    [session_count |-> IF svc_sessions = None THEN 0 ELSE Len(heapList[svc_sessions]),
     project_count |-> svc_project_count,
     refresh_count |-> svc_refresh_count,
     last_refresh_ms |-> svc_last_refresh_ms,
     index_stats |-> IF svc_index = None THEN EmptyStats
                     ELSE DictStats(GraphIndex_stats(heapIdx[svc_index]))]

\* refresh, lines 145-168, run by the only thread
RefreshNow ==
    LET ref == nextRef + 1
        projects == WorldProjects(world)
        sessions == <<>> \o ParseAll(projects)
    IN  /\ nextRef' = ref
        /\ heapList' = (ref :> sessions) @@ heapList
        /\ heapIdx' = (ref :> GraphIndex_build(GraphIndex_init, sessions)) @@ heapIdx
        /\ svc_sessions' = ref
        /\ svc_index' = ref
        /\ svc_project_count' = Len(projects)
        /\ svc_refresh_count' = svc_refresh_count + 1
        /\ svc_last_refresh_ms' = ref
        /\ hist' = [hist EXCEPT !.discoverCalls = @ + 1,
                                !.swapsDone = @ + 1,
                                !.publishedLists = @ \cup {ref},
                                !.publishedIndexes = @ \cup {ref},
                                !.installedBy = [project_count |-> ref, refresh_count |-> ref]]

\* _ensure_loaded, lines 139-143, run by the only thread
EnsureLoadedNow ==
    IF NothingLoaded THEN RefreshNow
    ELSE UNCHANGED <<cacheVars, heapVars, nextRef, hist>>

\* a call enters a tool handler
ToolCall ==
    /\ \A t \in Threads : pc[t] = "idle"
    /\ calls < MaxCalls
    /\ calls' = calls + 1
    /\ UNCHANGED <<world, lockVars, pc, loc, giOps, pg>>

\* the index the service holds, or a new one when it holds none
HeldIndex == IF svc_index = None THEN GraphIndex_init ELSE heapIdx[svc_index]

\* refresh_index(), lines 218-221
RefreshIndexTool ==
    /\ ToolCall
    /\ RefreshNow
    /\ gi' = HeldIndex'
    /\ giLast' = [op |-> "refresh_index", arg |-> <<>>, before |-> gi,
                  ret |-> RefreshIndexPayload([action |-> "index_refreshed"] @@ ServiceMeta')]

\* search_past_solutions(query, max_results), lines 224-259.  service.meta()
\* is called by every return; service.sessions(), which loads the cache, only
\* when the arguments are valid.
SearchPastSolutions(query, max_results) ==
    /\ ToolCall
    /\ IF Strip(Lower(query)) # <<>> /\ max_results > 0
       THEN EnsureLoadedNow
       ELSE UNCHANGED <<cacheVars, heapVars, nextRef, hist>>
    /\ gi' = HeldIndex'
    /\ giLast' = [op |-> "search_past_solutions", arg |-> <<query, max_results>>,
                  before |-> gi,
                  ret |-> search_past_solutions(
                              IF svc_sessions' = None THEN <<>> ELSE heapList'[svc_sessions'],
                              ServiceMeta', query, max_results)]

\* find_similar_sessions(context, max_results), lines 263-297.  service.index(),
\* which loads the cache, is called when the arguments are valid.
FindSimilarSessions(context, max_results) ==
    /\ ToolCall
    /\ IF max_results > 0 /\ parse_context_nodes(context).nodes # <<>>
       THEN EnsureLoadedNow
       ELSE UNCHANGED <<cacheVars, heapVars, nextRef, hist>>
    /\ gi' = HeldIndex'
    /\ giLast' = [op |-> "find_similar_sessions", arg |-> <<context, max_results>>,
                  before |-> gi,
                  ret |-> find_similar_sessions(HeldIndex', ServiceMeta', context, max_results)]

\* get_session(session_id), lines 350-370.  service.sessions(), which loads
\* the cache, is called when the identifier is not blank.
GetSession(session_id) ==
    /\ ToolCall
    /\ IF Strip(session_id) # <<>> THEN EnsureLoadedNow
       ELSE UNCHANGED <<cacheVars, heapVars, nextRef, hist>>
    /\ gi' = HeldIndex'
    /\ giLast' = [op |-> "get_session", arg |-> <<session_id>>, before |-> gi,
                  ret |-> get_session(
                              IF svc_sessions' = None THEN <<>> ELSE heapList'[svc_sessions'],
                              ServiceMeta', session_id)]

\* a get_project_patterns that loads the sessions before it looks at its
\* argument
GetProjectPatterns_LoadsFirst(project) ==
    /\ ToolCall
    /\ EnsureLoadedNow
    /\ gi' = HeldIndex'
    /\ giLast' = [op |-> "get_project_patterns", arg |-> <<project>>, before |-> gi,
                  ret |-> get_project_patterns(
                              IF svc_sessions' = None THEN <<>> ELSE heapList'[svc_sessions'],
                              ServiceMeta', project)]

\* get_project_patterns(project), lines 299-336.  service.sessions(), which
\* loads the cache, is called when the filter is not blank.
GetProjectPatterns(project) ==
    /\ ToolCall
    /\ IF project.given /\ Strip(project.text) = <<>>
       THEN UNCHANGED <<cacheVars, heapVars, nextRef, hist>>
       ELSE EnsureLoadedNow
    /\ gi' = HeldIndex'
    /\ giLast' = [op |-> "get_project_patterns", arg |-> <<project>>, before |-> gi,
                  ret |-> get_project_patterns(
                              IF svc_sessions' = None THEN <<>> ELSE heapList'[svc_sessions'],
                              ServiceMeta', project)]

\* service.meta(), lines 179-202, called by the client itself
MetaCall ==
    /\ ToolCall
    /\ UNCHANGED <<cacheVars, heapVars, nextRef, hist>>
    /\ gi' = HeldIndex'
    /\ giLast' = [op |-> "meta", arg |-> <<>>, before |-> gi, ret |-> ServiceMeta]

\* the six tools of create_mcp_server
ToolNames ==
    {"refresh_index", "search_past_solutions", "find_similar_sessions",
     "get_project_patterns", "get_trajectory_stats", "get_session"}

\* what a caller gets when the handler is left by an exception: no payload
Raised == [raised |-> TRUE]

\* A tool call whose arguments are valid reaches refresh(), in refresh_index
\* always and in the other tools through service.sessions() or service.index()
\* when nothing is loaded, and a collaborator of refresh (discovery, parsing,
\* the index factory or build) raises.  Neither refresh, _ensure_loaded nor
\* any handler catches: the exception leaves the handler.
ToolLoadFails(tool) ==
    /\ ToolCall
    /\ tool = "refresh_index" \/ NothingLoaded
    /\ nextRef' = nextRef + 1
    /\ hist' = [hist EXCEPT !.raised = TRUE, !.discoverCalls = @ + 1]
    /\ gi' = gi
    /\ giLast' = [op |-> tool, arg |-> <<>>, before |-> gi, ret |-> Raised]
    /\ UNCHANGED <<cacheVars, heapVars>>

ToolsNext ==
    \/ RefreshIndexTool
    \/ \E query \in Queries, max_results \in MaxResultsValues :
           SearchPastSolutions(query, max_results)
    \/ \E context \in ContextTexts, max_results \in MaxResultsValues :
           FindSimilarSessions(context, max_results)
    \/ \E session_id \in LookupIds : GetSession(session_id)
    \/ \E project \in ProjectFilters : GetProjectPatterns(project)
    \/ MetaCall
    \/ \E tool \in ToolNames : ToolLoadFails(tool)
    \/ EnvChange

SpecTools == Init /\ [][ToolsNext]_vars

\* ------------------------------------------------------------------------
\* Claims about SessionIndexService
\* ------------------------------------------------------------------------
\* the thread's next step reads or writes one of the five cached attributes
AccessLabels ==
    {"el_check1", "el_check2", "ret_read", "rf_set_sessions", "rf_set_index",
     "rf_set_project_count", "rf_set_count", "rf_set_ms", "mt_read"}

\* the thread's next step acquires the lock before it touches the attributes
AcquiringLabels == {"el_check2", "rf_set_sessions", "mt_read"}

AllIdle == \A t \in Threads : pc[t] = "idle"

\* C1: from an unloaded service, when threads call sessions() and index()
\* concurrently, no thread calls refresh() explicitly and no collaborator
\* raises, refresh() runs exactly once: the refresh counter and the number of
\* discovery calls never exceed 1, and both are 1 once all calls have returned.
C1_LazyLoadRunsOnce ==
    (~hist.explicit /\ ~hist.raised) =>
        /\ svc_refresh_count <= 1
        /\ hist.discoverCalls <= 1
        /\ (AllIdle /\ hist.accessReturned) =>
               /\ svc_refresh_count = 1
               /\ hist.discoverCalls = 1

\* a second caller passed the first check while the service was unloaded, and
\* makes its second check after the first caller's load
C1_Witness ==
    /\ ~hist.explicit
    /\ ~hist.raised
    /\ svc_refresh_count = 1
    /\ ~NothingLoaded
    /\ \E t \in Threads : pc[t] = "el_check2"

\* C2: no reader observes a torn state.  Whenever a caller of sessions() or
\* index() reads the cached value it returns, the session list and the index
\* in the service are the pair one refresh installed together.
C2_NoTornRead ==
    \A t \in Threads : pc[t] = "ret_read" => svc_sessions = svc_index

\* C3: every read and every write of the five cached attributes is made while
\* the accessing thread holds the lock.
C3_AllAccessUnderLock ==
    \A t \in Threads :
        pc[t] \in AccessLabels => (pc[t] \in AcquiringLabels \/ lockOwner = t)

\* C4: in every refresh, lazy ones included, discovery, parsing and the index
\* build run while the refreshing thread does not hold the lock.
C4_DiscoveryOutsideLock ==
    \A t \in Threads : pc[t] \in {"rf_discover", "rf_build"} => lockOwner # t

\* C5: every meta() result is a consistent snapshot.  Its session_count,
\* project_count, refresh_count, last_refresh_ms and the index whose stats()
\* it reports were all installed by one refresh, or are all the initial values.
C5_MetaIsSnapshot ==
    \A t \in Threads : pc[t] = "mt_stats" =>
        \A outcome \in StatsOutcomes :
            LET m == MetaDict(t, outcome)
                r == loc[t].snap.by_sessions
            IN  /\ m.stats_of = r
                /\ m.last_refresh_ms = r
                /\ loc[t].snap.by_project_count = r
                /\ loc[t].snap.by_refresh_count = r
                /\ m.session_count = IF r = None THEN 0 ELSE Len(heapList[r])
                /\ m.project_count = loc[t].snap.project_count
                /\ m.refresh_count = loc[t].snap.refresh_count
                /\ r = None => /\ m.project_count = 0
                               /\ m.refresh_count = 0
                               /\ m.index_stats = EmptyStats
                /\ (r # None /\ outcome = "dict") =>
                       m.index_stats = DictStats(GraphIndex_stats(heapIdx[r]))

\* meta() has read a loaded service under the lock, and a refresh has installed
\* another index before meta() asks for the statistics
C5_Witness ==
    \E t \in Threads :
        /\ pc[t] = "mt_stats"
        /\ loc[t].snap.index # None
        /\ svc_index # loc[t].snap.index
        /\ heapIdx[svc_index] # heapIdx[loc[t].snap.index]

\* refresh() executions that have incremented the counter inside their swap
SwapsCounted == hist.swapsDone + Cardinality({t \in Threads : pc[t] = "rf_set_ms"})

\* C6: refresh_count never decreases and equals the number of refresh()
\* executions that completed their state swap (those that have left the swap,
\* and the one inside it that has passed the increment), under explicit and
\* lazy refreshes; a refresh_index call performs exactly one refresh and
\* returns an empty results list.
C6_RefreshCountCounts ==
    /\ [](/\ svc_refresh_count = SwapsCounted
          /\ lockOwner = NoThread => svc_refresh_count = hist.swapsDone
          /\ \A t \in Threads : loc[t].op = "refresh_index" =>
                /\ loc[t].swaps = IF pc[t] \in {"mt_read", "mt_stats"} THEN 1 ELSE 0
                /\ pc[t] = "mt_stats" =>
                      \A outcome \in StatsOutcomes :
                          RefreshIndexPayload(MetaDict(t, outcome)).results = <<>>)
    /\ [][svc_refresh_count' >= svc_refresh_count]_vars

\* a refresh_index call returns while the counter is 2: a refresh that started
\* later has completed its swap earlier
C6_Witness ==
    /\ svc_refresh_count = 2
    /\ hist.swapsDone = 2
    /\ \E t \in Threads :
          /\ pc[t] = "mt_stats"
          /\ loc[t].op = "refresh_index"
          /\ loc[t].ref = 1
          /\ loc[t].snap.by_refresh_count = 1

\* C7: the service becomes loaded only through refresh(), and once: a session
\* list or an index that is present is never absent again, the two attributes
\* change only in the swap of a refresh, and a sessions() or index() call that
\* returns normally reads an index that is present.
C7_LoadedOnceViaRefresh ==
    /\ [](\A t \in Threads : pc[t] = "ret_read" => ~NothingLoaded)
    /\ [][/\ svc_sessions # None => svc_sessions' # None
          /\ svc_index # None => svc_index' # None
          /\ svc_sessions' # svc_sessions =>
                 \E t \in Threads : pc[t] = "rf_set_sessions" /\ pc'[t] = "rf_set_index"
          /\ svc_index' # svc_index =>
                 \E t \in Threads : pc[t] = "rf_set_index"
          /\ hist.accessReturned' => ~NothingLoaded']_vars

\* an index() call is about to return on a service that has been refreshed
\* again since it was loaded
C7_Witness ==
    /\ svc_refresh_count = 2
    /\ ~NothingLoaded
    /\ \E t \in Threads : pc[t] = "ret_read" /\ loc[t].op = "index"

\* C8: refresh() builds a new index object and a new session list and
\* installs them by replacing references: an object that was installed is
\* never written again, and what a refresh installs was never installed
\* before, so an index obtained before a refresh keeps its graph, contributor
\* map and session map.
C8_RefreshReplacesReferences ==
    [][/\ \A r \in hist.publishedIndexes :
              r \in DOMAIN heapIdx' /\ heapIdx'[r] = heapIdx[r]
       /\ \A r \in hist.publishedLists :
              r \in DOMAIN heapList' /\ heapList'[r] = heapList[r]
       /\ svc_index' # svc_index => svc_index' \notin hist.publishedIndexes
       /\ svc_sessions' # svc_sessions => svc_sessions' \notin hist.publishedLists]_vars

\* a refresh has installed an index that differs from the one installed
\* before, which is still as it was built
C8_Witness ==
    \E r1, r2 \in hist.publishedIndexes :
        /\ r1 # r2
        /\ svc_index = r2
        /\ heapIdx[r1] # heapIdx[r2]
        /\ GraphIndex_stats(heapIdx[r2]).sessions > 0
        /\ heapIdx[r1] = GraphIndex_build(GraphIndex_init, heapList[r1])

\* C9: meta() never fails.  When stats() of the cached index raises or returns
\* something that is no dictionary, meta() returns normally, index_stats is
\* the empty object and the other fields are the values read under the lock.
C9_MetaNeverFails ==
    \A t \in Threads : pc[t] = "mt_stats" =>
        \A outcome \in StatsOutcomes :
            LET m == MetaDict(t, outcome)
            IN  /\ ~m.raised
                /\ outcome \in {"raises", "not_dict"} =>
                      /\ m.index_stats = EmptyStats
                      /\ m.session_count = loc[t].snap.session_count
                      /\ m.project_count = loc[t].snap.project_count
                      /\ m.refresh_count = loc[t].snap.refresh_count
                      /\ m.last_refresh_ms = loc[t].snap.last_refresh_ms

\* meta() is about to call stats() on a cached index that holds sessions
C9_Witness ==
    \E t \in Threads :
        /\ pc[t] = "mt_stats"
        /\ loc[t].snap.index # None
        /\ loc[t].snap.session_count > 0
        /\ GraphIndex_stats(heapIdx[loc[t].snap.index]).sessions > 0

\* ------------------------------------------------------------------------
\* Claims about the graph and GraphIndex
\* ------------------------------------------------------------------------
\* the tool sequence _index_session collects from a session
ToolSeqOf(session) ==
    IndexMessages([graph |-> make_graph, tool_seq |-> <<>>], session.messages).tool_seq

\* the positions of the tool sequence at which the transition e starts
TransitionsAt(tool_seq, e) ==
    {i \in 1..(Len(tool_seq) - 1) : <<tool_seq[i], tool_seq[i + 1]>> = e}

TransitionsOf(session) ==
    {<<ToolSeqOf(session)[i], ToolSeqOf(session)[i + 1]>> :
        i \in 1..(Len(ToolSeqOf(session)) - 1)}

\* the last operation added a session that the index already stored, with the
\* same content, under its identifier
ReAdded ==
    /\ giLast.op = "add_session"
    /\ SessionKey(giLast.arg[1]) \in DOMAIN giLast.before.sessions
    /\ giLast.before.sessions[SessionKey(giLast.arg[1])] = giLast.arg[1]

\* C11: inserting an edge that exists adds exactly one to its weight, leaves
\* the edge count and the node count unchanged and keeps the relation the edge
\* was created with, even when the insertion carries another relation;
\* inserting an absent edge creates it with weight 1 and the given relation.
\* No other edge is touched.
C11_AddEdgeAccumulates ==
    giLast.op = "add_edge" =>
        LET g0 == giLast.before.graph
            g1 == gi.graph
            e  == <<giLast.arg[1], giLast.arg[2]>>
        IN  /\ has_edge(g1, e[1], e[2])
            /\ has_edge(g0, e[1], e[2]) =>
                   /\ g1.attr[e].weight = g0.attr[e].weight + 1
                   /\ g1.attr[e].rel = g0.attr[e].rel
                   /\ edge_count(g1) = edge_count(g0)
                   /\ node_count(g1) = node_count(g0)
                   /\ g1.edges = g0.edges
            /\ ~has_edge(g0, e[1], e[2]) =>
                   /\ g1.attr[e] = [weight |-> 1, rel |-> giLast.arg[3]]
                   /\ edge_count(g1) = edge_count(g0) + 1
            /\ \A f \in DOMAIN g0.attr : f # e => g1.attr[f] = g0.attr[f]
            /\ \A i, j \in 1..Len(g1.edges) : i # j => g1.edges[i] # g1.edges[j]

\* an edge that exists is inserted again with another relation
C11_Witness ==
    /\ giLast.op = "add_edge"
    /\ has_edge(giLast.before.graph, giLast.arg[1], giLast.arg[2])
    /\ giLast.before.graph.attr[<<giLast.arg[1], giLast.arg[2]>>].rel # giLast.arg[3]
    /\ gi.graph.attr[<<giLast.arg[1], giLast.arg[2]>>].weight = 2

\* C10: build(L) is a full replacement.  Whatever state the index was in, after
\* build(L) its graph, contributor map and session map are those of a freshly
\* constructed index on which build(L) was called; after build([]) the
\* statistics report 0 sessions, 0 nodes and 0 edges.
C10_BuildIsFullReplacement ==
    giLast.op = "build" =>
        /\ gi = GraphIndex_build(GraphIndex_init, giLast.arg)
        /\ giLast.arg = <<>> =>
               /\ GraphIndex_stats(gi).sessions = 0
               /\ GraphIndex_stats(gi).nodes = 0
               /\ GraphIndex_stats(gi).edges = 0

\* build([]) on an index that held sessions, nodes and edges
C10_Witness ==
    /\ giLast.op = "build"
    /\ giLast.arg = <<>>
    /\ GraphIndex_stats(giLast.before).sessions > 0
    /\ GraphIndex_stats(giLast.before).edges > 0
    /\ GraphIndex_stats(gi).sessions = 0

\* C12 as stated: adding the same session content twice leaves the node count
\* and the edge count unchanged, and the weight of each tool-to-tool
\* transition edge of the session is its weight before plus 1.
C12_ReAddAddsOne ==
    ReAdded =>
        /\ node_count(gi.graph) = node_count(giLast.before.graph)
        /\ edge_count(gi.graph) = edge_count(giLast.before.graph)
        /\ \A e \in TransitionsOf(giLast.arg[1]) :
               gi.graph.attr[e].weight = giLast.before.graph.attr[e].weight + 1

\* C12, amended: adding the same session content twice leaves the node count
\* and the edge count unchanged, and the weight of each tool-to-tool
\* transition edge of the session is its weight before plus the number of
\* times the transition occurs in the tool sequence of the session.
C12_ReAddAccumulates ==
    ReAdded =>
        /\ node_count(gi.graph) = node_count(giLast.before.graph)
        /\ edge_count(gi.graph) = edge_count(giLast.before.graph)
        /\ gi.graph.edges = giLast.before.graph.edges
        /\ \A e \in TransitionsOf(giLast.arg[1]) :
               /\ has_edge(giLast.before.graph, e[1], e[2])
               /\ gi.graph.attr[e].weight =
                      giLast.before.graph.attr[e].weight
                          + Cardinality(TransitionsAt(ToolSeqOf(giLast.arg[1]), e))

\* a session in which one transition occurs twice is added a second time
C12_Witness ==
    /\ ReAdded
    /\ \E e \in TransitionsOf(giLast.arg[1]) :
          /\ Cardinality(TransitionsAt(ToolSeqOf(giLast.arg[1]), e)) = 2
          /\ gi.graph.attr[e].weight = 4

\* the last operation built the index from one session with a successful
\* trajectory
BuiltFromOneSuccess ==
    /\ giLast.op = "build"
    /\ Len(giLast.arg) = 1
    /\ giLast.arg[1].trajectory_type # "correction_loop"

\* C13 as stated: for a session S with tool sequence t1..tn and a successful
\* trajectory, the index built from S alone has an edge ti -> ti+1 for every
\* i, tagged led_to_success, and stats()["edges"] >= n - 1.
C13_SuccessEdgesAtLeastN ==
    BuiltFromOneSuccess =>
        LET ts == ToolSeqOf(giLast.arg[1])
        IN  /\ \A i \in 1..(Len(ts) - 1) :
                   /\ has_edge(gi.graph, ts[i], ts[i + 1])
                   /\ gi.graph.attr[<<ts[i], ts[i + 1]>>].rel = "led_to_success"
            /\ GraphIndex_stats(gi).edges >= Len(ts) - 1

\* C13, amended: for a session S with tool sequence t1..tn and a successful
\* trajectory, the index built from S alone has an edge ti -> ti+1 for every
\* i, tagged led_to_success, and stats()["edges"] is at least the number of
\* distinct pairs (ti, ti+1), which is n - 1 when no transition repeats.
C13_SuccessEdges ==
    BuiltFromOneSuccess =>
        LET ts == ToolSeqOf(giLast.arg[1])
        IN  /\ \A i \in 1..(Len(ts) - 1) :
                   /\ has_edge(gi.graph, ts[i], ts[i + 1])
                   /\ gi.graph.attr[<<ts[i], ts[i + 1]>>].rel = "led_to_success"
            /\ GraphIndex_stats(gi).edges >= Cardinality(TransitionsOf(giLast.arg[1]))
            /\ (\A i, j \in 1..(Len(ts) - 1) :
                    i # j => <<ts[i], ts[i + 1]>> # <<ts[j], ts[j + 1]>>)
                   => GraphIndex_stats(gi).edges >= Len(ts) - 1

\* the index is built from one successful session of three tool uses in
\* which a transition repeats: one edge for two transitions
C13_Witness ==
    /\ BuiltFromOneSuccess
    /\ Len(ToolSeqOf(giLast.arg[1])) = 3
    /\ Cardinality(TransitionsOf(giLast.arg[1])) = 1
    /\ GraphIndex_stats(gi).edges = 1
    /\ \A e \in TransitionsOf(giLast.arg[1]) : gi.graph.attr[e].weight = 2

\* ------------------------------------------------------------------------
\* Claims about GraphIndex.query
\* ------------------------------------------------------------------------
\* the file nodes _index_session makes of the contents of the session's messages
FileNodesOf(session) ==
    UNION {{file_node(f[k]) : k \in 1..Len(f)} :
              f \in {extract_file_refs(session.messages[i].content) :
                         i \in 1..Len(session.messages)}}

\* the error nodes _index_session makes of the user and tool_result messages
ErrorNodesOf(session) ==
    UNION {{error_node(f[k]) : k \in 1..Len(f)} :
              f \in {extract_error_refs(session.messages[i].content) :
                         i \in {n \in 1..Len(session.messages) :
                                    session.messages[n].role \in {"user", "tool_result"}}}}

\* the last operation is a query with one context node and the default
\* max_results, on the index built from session alone
QueriedAfterBuildOf(session) ==
    /\ giLast.op = "query"
    /\ Len(giLast.arg[1]) = 1
    /\ giLast.arg[2] = DefaultMaxResults
    /\ giLast.before = GraphIndex_build(GraphIndex_init, <<session>>)

\* C14: after build([S]), where a message of S mentions a file path in its
\* content and a user or tool_result message of S has an error line, the
\* query for that file node returns S and the query for that error node
\* returns S, also when S has no tool uses.
C14_FileAndErrorNodesFindSession ==
    \A session \in PoolSet :
        (/\ QueriedAfterBuildOf(session)
         /\ normalize_node(giLast.arg[1][1]) \in FileNodesOf(session) \cup ErrorNodesOf(session))
            => SeqHas(giLast.ret, session)

\* the session has a tool use whose node is node
UsesTool(session, node) == SeqHas(ToolSeqOf(session), node)

\* the session identifier contributes to node or to a neighbor of node
ScoresFor(self, sid, node) ==
    \/ SeqHas(Contributors(self, node), sid)
    \/ \E i \in 1..Len(neighbors(self.graph, node)) :
           SeqHas(Contributors(self, neighbors(self.graph, node)[i]), sid)

\* the session has no tool use on node or on a neighbor of node
NoPathTo(self, session, node) ==
    /\ ~UsesTool(session, node)
    /\ \A i \in 1..Len(neighbors(self.graph, node)) :
           ~UsesTool(session, neighbors(self.graph, node)[i])

\* the position of x in s, or 0
IndexIn(s, x) ==
    IF SeqHas(s, x) THEN CHOOSE i \in 1..Len(s) : s[i] = x /\ \A j \in 1..(i - 1) : s[j] # x
    ELSE 0

\* the last operation is a query whose context is tool:read alone
QueriedRead ==
    /\ giLast.op = "query"
    /\ Len(giLast.arg[1]) = 1
    /\ normalize_node(giLast.arg[1][1]) = NodeRead

QueriedReadBashWrite ==
    /\ giLast.op = "query"
    /\ giLast.arg[2] >= 2
    /\ Len(giLast.arg[1]) = 1
    /\ giLast.before = GraphIndex_build(GraphIndex_init, <<SessA, SessB>>)

\* C16: in the index built from s1 (tools Read, Bash) and s2 (tools Bash,
\* Write), query(["tool:read"]) returns s1 ranked above or equal to s2, and s2
\* is present through the shared Bash neighbor though it is no direct
\* contributor of tool:read; query(["tool:bash"]) returns both s1 and s2.
C16_NeighborTraversalScenario ==
    QueriedReadBashWrite =>
        /\ normalize_node(giLast.arg[1][1]) = NodeRead =>
               /\ SeqHas(giLast.ret, SessA)
               /\ SeqHas(giLast.ret, SessB)
               /\ IndexIn(giLast.ret, SessA) <= IndexIn(giLast.ret, SessB)
               /\ ~SeqHas(Contributors(gi, NodeRead), SessionKey(SessB))
               /\ SeqHas(neighbors(gi.graph, NodeRead), NodeBash)
               /\ SeqHas(Contributors(gi, NodeBash), SessionKey(SessB))
        /\ normalize_node(giLast.arg[1][1]) = NodeBash =>
               /\ SeqHas(giLast.ret, SessA)
               /\ SeqHas(giLast.ret, SessB)

\* tool:read is queried on the index built from s1 and s2: s1, then s2
C16_Witness ==
    /\ QueriedReadBashWrite
    /\ giLast.arg = <<(<<NodeRead>>), DefaultMaxResults>>
    /\ giLast.ret = <<SessA, SessB>>

\* the score query has given to sid: its entry in candidate_scores, or 0
ScoreOf(scores, sid) ==
    IF \E i \in 1..Len(scores) : scores[i].sid = sid
    THEN (CHOOSE x \in {scores[i] : i \in 1..Len(scores)} : x.sid = sid).score
    ELSE 0

\* the set of the elements of a sequence
Range(s) == {s[i] : i \in 1..Len(s)}

\* the score the claim gives: over the context nodes, 2 for a direct
\* contributor and 1 for each distinct neighbor the identifier contributes to
RECURSIVE ClaimedScore(_, _, _)
ClaimedScore(self, sid, context_nodes) ==
    IF context_nodes = <<>> THEN 0
    ELSE LET norm == normalize_node(Head(context_nodes))
         IN  (IF SeqHas(Contributors(self, norm), sid) THEN DirectPoints ELSE 0)
             + NeighborPoints
                 * Cardinality({n \in Range(neighbors(self.graph, norm)) :
                                   SeqHas(Contributors(self, n), sid)})
             + ClaimedScore(self, sid, Tail(context_nodes))

\* every session identifier the index knows
KnownIds(self) ==
    DOMAIN self.sessions \cup
    UNION {Range(self.node_to_sessions[n]) : n \in DOMAIN self.node_to_sessions}

\* C17: for a context that is not empty, query gives each session identifier
\* the sum, over the normalized context nodes, of 2 if it is a direct
\* contributor of the node plus 1 for each neighbor of the node (successor or
\* predecessor, each distinct neighbor counted once) it contributes to; the
\* candidates are the identifiers with a positive score.
C17_ScoreCountsNeighborsOnce ==
    (giLast.op = "query" /\ giLast.arg[1] # <<>>) =>
        LET scores == ScoreContext(gi, <<>>, giLast.arg[1])
        IN  /\ \A sid \in KnownIds(gi) :
                   ScoreOf(scores, sid) = ClaimedScore(gi, sid, giLast.arg[1])
            /\ \A i \in 1..Len(scores) : scores[i].score > 0

\* C18: query([]) returns an empty sequence in every reachable state of the
\* index (empty, built, extended by add_session) and leaves the index as it was.
C18_EmptyContextReturnsNothing ==
    (giLast.op = "query" /\ giLast.arg[1] = <<>>) =>
        /\ giLast.ret = <<>>
        /\ gi = giLast.before

\* query([]) has run on an index that was built and then extended
C18_Witness ==
    /\ giLast.op = "query"
    /\ giLast.arg[1] = <<>>
    /\ giLast.arg[2] > 0
    /\ giOps = 3
    /\ Cardinality(DOMAIN gi.sessions) >= 2
    /\ giLast.ret = <<>>

\* C19: for every index, every context and every integer max_results, the
\* sequence query returns has at most max_results elements.
C19_LengthAtMostMaxResults ==
    giLast.op = "query" => Len(giLast.ret) <= giLast.arg[2]

\* ------------------------------------------------------------------------
\* Claims about the memory tools
\* ------------------------------------------------------------------------
\* the last call was a search tool and its payload says ok
SearchSucceeded ==
    /\ giLast.op \in {"search_past_solutions", "find_similar_sessions"}
    /\ giLast.ret # Raised
    /\ giLast.ret.ok

\* the sessions of the cached list that match the needle of the last call
MatchingCached ==
    SelectSeq(heapList[svc_sessions],
              LAMBDA session : SessionMatches(session, Strip(Lower(giLast.arg[1]))))

\* C20: every successful search_past_solutions and find_similar_sessions
\* response holds at most max_results results, its meta field returned is the
\* number of results, and the results carry the ranks 1, 2, ..., k in order;
\* search_past_solutions returns the first max_results matching sessions in
\* the order of the cached list.
C20_SearchResponsesBounded ==
    SearchSucceeded =>
        LET results == giLast.ret.results
            max_results == giLast.arg[2]
        IN  /\ Len(results) <= max_results
            /\ giLast.ret.meta.returned = Len(results)
            /\ \A i \in 1..Len(results) : results[i].rank = i
            /\ giLast.op = "search_past_solutions" =>
                   results = [i \in 1..Min(max_results, Len(MatchingCached)) |->
                                 session_summary(MatchingCached[i], i)]

\* a search has cut three matching sessions down to max_results = 2
C20_Witness ==
    /\ SearchSucceeded
    /\ giLast.op = "search_past_solutions"
    /\ giLast.arg[2] = 2
    /\ Len(MatchingCached) > 2
    /\ Len(giLast.ret.results) = 2
    /\ giLast.ret.results[2] = session_summary(SessC, 2)

\* ------------------------------------------------------------------------
\* Claims about the two graph backends
\* ------------------------------------------------------------------------
\* the nodes a caller may ask about: the nodes of either graph and one more
AskedNodes == Range(gi.graph.nodes) \cup DOMAIN pg.out \cup DOMAIN pg.in \cup {NodeMissing}

\* C21: the networkx graph and the _PureGraph that have received the same
\* _add_edge calls cannot be told apart: the node count, the edge count, the
\* existence of every edge and the ordered result of neighbors(node),
\* successors then predecessors, on which the order of every query result
\* rests, are the same under both backends.
C21_BackendsEquivalent ==
    /\ pure_node_count(pg) = node_count(gi.graph)
    /\ pure_edge_count(pg) = edge_count(gi.graph)
    /\ \A src \in AskedNodes, dst \in AskedNodes :
           pure_has_edge(pg, src, dst) = has_edge(gi.graph, src, dst)
    /\ \A node \in AskedNodes : pure_neighbors(pg, node) = {neighbors(gi.graph, node)}

\* a success envelope (ok, results, meta) or an error envelope (ok, error with
\* code and message, meta)
IsEnvelope(payload) ==
    /\ "ok" \in DOMAIN payload
    /\ IF payload.ok
       THEN DOMAIN payload = {"ok", "results", "meta"}
       ELSE /\ DOMAIN payload = {"ok", "error", "meta"}
            /\ DOMAIN payload.error = {"code", "message"}

\* C22: every call of a tool, for every argument and every state of the
\* service, ends by returning a success envelope or a structured error
\* envelope; no call is left by an exception, a call that has to load or to
\* refresh included.
C22_EveryCallReturnsEnvelope ==
    giLast.op \in ToolNames => IsEnvelope(giLast.ret)

\* the last call was tool and has returned a payload
Returned(tool) == giLast.op = tool /\ giLast.ret # Raised

\* the payload of the last call is an error envelope with this code
FailsWith(code) == ~giLast.ret.ok /\ giLast.ret.error.code = code

\* the list service.sessions() returns after the last call
CachedSessions == IF svc_sessions = None THEN <<>> ELSE heapList[svc_sessions]

\* needle is a substring of a message content or of the project of session
\* as they are written
ContainsAsWritten(session, needle) ==
    \/ \E i \in 1..Len(session.messages) : Contains(session.messages[i].content, needle)
    \/ Contains(session.project, needle)

\* the validation part of C23: invalid_query exactly for a query that is
\* empty after trimming, else invalid_max_results exactly for max_results <= 0
SearchValidation ==
    LET needle == Strip(Lower(giLast.arg[1]))
        max_results == giLast.arg[2]
    IN  /\ FailsWith("invalid_query") <=> needle = <<>>
        /\ needle # <<>> => (FailsWith("invalid_max_results") <=> max_results <= 0)
        /\ (needle # <<>> /\ max_results > 0) => giLast.ret.ok

TokensOf(context) ==
    {Strip(raw) : raw \in Range(Split(context, ","))} \ {<<>>}

\* the prefix of a valid token: tool, file or error, followed by ':' and a
\* value that is not empty; upper and lower case are not told apart
PrefixesOf(token) ==
    {prefix \in AllowedPrefixes :
        /\ Len(token) > Len(prefix)
        /\ SubSeq(Lower(token), 1, Len(prefix) + 1) = prefix \o <<":">>
        /\ Strip(SubSeq(token, Len(prefix) + 2, Len(token))) # <<>>}

IsValidToken(token) == PrefixesOf(token) # {}

\* the node a valid token names
NodeOfToken(token) ==
    LET prefix == CHOOSE prefix \in PrefixesOf(token) : TRUE
    IN  prefix \o <<":">> \o Strip(SubSeq(Lower(token), Len(prefix) + 2, Len(token)))

\* C24: find_similar_sessions takes bad tokens as non-fatal.  Each non-empty
\* comma-separated token is either a valid node or listed in invalid_tokens,
\* never both; after max_results has been validated, the call fails with
\* invalid_context if and only if no valid token remains, and otherwise runs
\* GraphIndex.query on exactly the valid nodes.
C24_BadTokensAreNotFatal ==
    Returned("find_similar_sessions") =>
        LET tokens == TokensOf(giLast.arg[1])
            valid == {token \in tokens : IsValidToken(token)}
            max_results == giLast.arg[2]
            meta == giLast.ret.meta
        IN  /\ FailsWith("invalid_max_results") <=> max_results <= 0
            /\ max_results > 0 =>
                  /\ FailsWith("invalid_context") <=> valid = {}
                  /\ Range(meta.invalid_tokens) = tokens \ valid
                  /\ valid # {} =>
                        /\ giLast.ret.ok
                        /\ Range(meta.context_nodes) = {NodeOfToken(token) : token \in valid}
                        /\ Range(meta.context_nodes) \cap Range(meta.invalid_tokens) = {}
                        /\ giLast.ret.results =
                               RankSessions(GraphIndex_query(gi, meta.context_nodes,
                                                             max_results))

\* the context of the example has reported badtoken and queried the two nodes
C24_Witness ==
    /\ Returned("find_similar_sessions")
    /\ giLast.arg[1] = CtxExample
    /\ giLast.ret.ok
    /\ giLast.ret.meta.invalid_tokens = <<<<"b", "a", "d", "t", "o", "k", "e", "n">>>>
    /\ giLast.ret.meta.context_nodes =
           <<NodeBash, <<"f", "i", "l", "e", ":", "x", ".", "p", "y">>>>
    /\ Len(giLast.ret.results) = 2

\* the cached sessions that carry the identifier lookup, in list order
CachedWithId(lookup) ==
    SelectSeq(CachedSessions,
              LAMBDA session : session.session_id.present /\ session.session_id.text = lookup)

\* C25: get_session fails with invalid_session_id when the trimmed identifier
\* is empty, returns the error envelope session_not_found when no cached
\* session's identifier, compared as a string, equals the trimmed input, and
\* otherwise returns the full record of the first cached session whose
\* identifier matches.
C25_GetSessionFindsById ==
    Returned("get_session") =>
        LET lookup == Strip(giLast.arg[1])
        IN  /\ FailsWith("invalid_session_id") <=> lookup = <<>>
            /\ lookup # <<>> =>
                  /\ FailsWith("session_not_found") <=> CachedWithId(lookup) = <<>>
                  /\ CachedWithId(lookup) # <<>> =>
                        /\ giLast.ret.ok
                        /\ giLast.ret.results = Head(CachedWithId(lookup))

\* ------------------------------------------------------------------------
\* Claims about build_index_from_jsonl
\* ------------------------------------------------------------------------
\* the lines of the files that exist, in file and line order
RECURSIVE AllLines(_)
AllLines(files) ==
    IF files = <<>> THEN <<>>
    ELSE (IF Head(files).exists THEN Head(files).lines ELSE <<>>) \o AllLines(Tail(files))

\* a line that is not blank and is valid JSON
IsParseable(line) == ~IsBlankLine(StripLine(line)) /\ ~JsonLoads(StripLine(line)).raises

\* the values of the parseable lines, in order
ParseableRecords(files) ==
    LET kept == SelectSeq(AllLines(files), IsParseable)
    IN  [i \in 1..Len(kept) |-> JsonLoads(StripLine(kept[i])).value]

\* C26: build_index_from_jsonl skips every blank line and every line that is
\* not valid JSON without aborting, takes a path that does not exist for an
\* empty source, and indexes every other line: the index it returns is the
\* one add_session gives when called, in file and line order, on exactly the
\* parseable records.
C26_JsonlLoadSkipsAndAdds ==
    giLast.op = "build_index_from_jsonl" =>
        /\ ~giLast.raised
        /\ gi = AddSessions(GraphIndex_init, ParseableRecords(giLast.arg))

\* ------------------------------------------------------------------------
\* Claims about add_session
\* ------------------------------------------------------------------------
\* s is the beginning of t
IsPrefix(s, t) == Len(s) <= Len(t) /\ SubSeq(t, 1, Len(s)) = s

\* nothing of old is missing in new: the nodes, the edges and their weights,
\* the contributor lists and the stored identifiers
NothingLost(old, new) ==
    /\ node_count(new.graph) >= node_count(old.graph)
    /\ Range(old.graph.nodes) \subseteq Range(new.graph.nodes)
    /\ edge_count(new.graph) >= edge_count(old.graph)
    /\ \A e \in DOMAIN old.graph.attr :
          /\ has_edge(new.graph, e[1], e[2])
          /\ new.graph.attr[e].weight >= old.graph.attr[e].weight
    /\ \A node \in DOMAIN old.node_to_sessions :
          IsPrefix(Contributors(old, node), Contributors(new, node))
    /\ DOMAIN old.sessions \subseteq DOMAIN new.sessions

\* C27: add_session is purely additive: the node count, the edge count, the
\* weight of every edge, every contributor list and the set of the stored
\* identifiers never shrink, and the edges a session has contributed are never
\* taken back, also when a later session with the same identifier replaces
\* its record.
C27_AddSessionIsAdditive ==
    giLast.op = "add_session" => NothingLost(giLast.before, gi)

\* SessC has replaced SessA under s1 and the edge of SessA is still there
C27_Witness ==
    /\ giLast.op = "add_session"
    /\ giLast.arg[1] = SessC
    /\ TxtS1 \in DOMAIN giLast.before.sessions
    /\ giLast.before.sessions[TxtS1] = SessA
    /\ gi.sessions[TxtS1] = SessC
    /\ has_edge(gi.graph, NodeRead, NodeBash)
    /\ ~has_edge(index_session(make_graph, SessC), NodeRead, NodeBash)

\* the identifier of the session just added was stored before
AddedStoredId ==
    /\ giLast.op = "add_session"
    /\ SessionKey(giLast.arg[1]) \in DOMAIN giLast.before.sessions

\* C28: the last write wins when identifiers collide: add_session(b) for an
\* identifier that a stored session a has leaves the number of stored
\* sessions as it was, and the record stored, and returned by query, under
\* the identifier is b.
C28_LastWriteWins ==
    AddedStoredId =>
        LET b == giLast.arg[1]
        IN  /\ Cardinality(DOMAIN gi.sessions) = Cardinality(DOMAIN giLast.before.sessions)
            /\ gi.sessions[SessionKey(b)] = b
            /\ \A context_nodes \in Contexts, max_results \in MaxResultsValues :
                  \A session \in Range(GraphIndex_query(gi, context_nodes, max_results)) :
                     SessionKey(session) = SessionKey(b) => session = b

\* SessC was added over SessA, and a query for the tool of SessA returns SessC
C28_Witness ==
    /\ AddedStoredId
    /\ giLast.arg[1] = SessC
    /\ giLast.before.sessions[TxtS1] = SessA
    /\ GraphIndex_query(gi, <<NodeRead>>, DefaultMaxResults) = <<SessC>>

\* the session uses the tool of this node
ContributesTo(session, node) ==
    \E i \in 1..Len(session.messages) :
       \E j \in 1..Len(session.messages[i].tool_uses) :
          LET tool_name == Strip(session.messages[i].tool_uses[j].tool)
          IN  tool_name # <<>> /\ tool_node(tool_name) = node

\* the identifiers of a sequence, each at its first occurrence
RECURSIVE FirstOccurrences(_)
FirstOccurrences(ids) ==
    IF ids = <<>> THEN <<>>
    ELSE LET before == FirstOccurrences(SubSeq(ids, 1, Len(ids) - 1))
             last == ids[Len(ids)]
         IN  IF SeqHas(before, last) THEN before ELSE Append(before, last)

\* the identifiers of the sessions of a list that contribute to node, in the
\* order of their first contribution
FirstContributors(sessions, node) ==
    LET using == SelectSeq(sessions, LAMBDA session : ContributesTo(session, node))
    IN  FirstOccurrences([i \in 1..Len(using) |-> SessionKey(using[i])])

\* every node that has contributors, or may have
ContributorNodes(self) == DOMAIN self.node_to_sessions \cup {NodeRead, NodeBash, NodeWrite}

\* C29: in every reachable state of the index the contributor list of each
\* node holds no identifier more than once and lists the identifiers in the
\* order in which they first contributed to the node, also when a session
\* uses the tool several times or is added several times.
C29_ContributorsOrderedOnce ==
    /\ \A node \in ContributorNodes(gi) :
          \A i, j \in 1..Len(Contributors(gi, node)) :
             Contributors(gi, node)[i] = Contributors(gi, node)[j] => i = j
    /\ giLast.op = "build" =>
          \A node \in ContributorNodes(gi) :
             Contributors(gi, node) = FirstContributors(giLast.arg, node)
    /\ giLast.op = "add_session" =>
          \A node \in ContributorNodes(gi) :
             LET old == Contributors(giLast.before, node)
                 new == Contributors(gi, node)
                 sid == SessionKey(giLast.arg[1])
             IN  IF ContributesTo(giLast.arg[1], node) /\ ~SeqHas(old, sid)
                 THEN new = Append(old, sid)
                 ELSE new = old

\* SessE, which uses Read three times, was added again after SessA and SessE
C29_Witness ==
    /\ giLast.op = "add_session"
    /\ giLast.arg[1] = SessE
    /\ Contributors(giLast.before, NodeRead) = <<TxtS1, TxtS3>>
    /\ Contributors(gi, NodeRead) = <<TxtS1, TxtS3>>

\* ------------------------------------------------------------------------
\* Claims about the order of the results of query
\* ------------------------------------------------------------------------
\* the sessions are in non-increasing order of score, and those of equal
\* score in the order in which scores gave them their first points
RankedByScore(result, scores) ==
    \A i, j \in 1..Len(result) :
       i < j =>
          \E p, q \in 1..Len(scores) :
             /\ scores[p].sid = SessionKey(result[i])
             /\ scores[q].sid = SessionKey(result[j])
             /\ \/ scores[p].score > scores[q].score
                \/ scores[p].score = scores[q].score /\ p < q

\* C30: query returns the sessions in non-increasing order of score, the
\* sessions of equal score in the order in which their identifiers first
\* received points (context nodes in the order given; for each the direct
\* contributors, then the neighbors, successors before predecessors), and
\* the result is determined by the operations the index has seen and the
\* arguments: without networkx as well, the index and the arguments allow
\* one result only.
C30_QueryOrderDetermined ==
    giLast.op = "query" =>
        /\ \A scores \in {ScoreContext(gi, <<>>, giLast.arg[1])} :
              RankedByScore(giLast.ret, scores)
        /\ Cardinality(pure_query(gi, giLast.arg[1], giLast.arg[2])) = 1

\* ------------------------------------------------------------------------
\* Claims about the candidates of query
\* ------------------------------------------------------------------------
\* C31: in every reachable state of the index every identifier of a
\* contributor list is a key of the session map, so that query skips no
\* candidate: for a positive max_results it returns exactly
\* min(max_results, number of identifiers that have points) sessions.
C31_NoCandidateSkipped ==
    /\ \A node \in DOMAIN gi.node_to_sessions :
          Range(gi.node_to_sessions[node]) \subseteq DOMAIN gi.sessions
    /\ giLast.op = "query" /\ giLast.arg[2] > 0 =>
          \A scores \in {ScoreContext(gi, <<>>, giLast.arg[1])} :
             /\ \A i \in 1..Len(scores) : scores[i].score > 0
             /\ Len(giLast.ret) = Min(giLast.arg[2], Len(scores))

\* a query cut at max_results = 2 although six identifiers have points
C31_Witness ==
    /\ giLast.op = "query"
    /\ giLast.arg[2] = 2
    /\ Len(ScoreContext(gi, <<>>, giLast.arg[1])) = DefaultMaxResults + 1
    /\ Len(giLast.ret) = 2

\* the session is a direct contributor of the context node
IsDirect(self, session, node) ==
    SeqHas(Contributors(self, normalize_node(node)), SessionKey(session))

\* C37: for a query with the single context node n, every returned session
\* that is a direct contributor of n stands before every returned session
\* that is not: a session that only shares neighbors of n never outranks a
\* direct match.
C37_DirectMatchNotOutranked ==
    giLast.op = "query" /\ Len(giLast.arg[1]) = 1 =>
        \A i, j \in 1..Len(giLast.ret) :
           /\ IsDirect(gi, giLast.ret[i], giLast.arg[1][1])
           /\ ~IsDirect(gi, giLast.ret[j], giLast.arg[1][1])
           => i < j

\* the record holds a tool use whose node is a context node or a neighbor of
\* a context node
IsRelevant(self, session, context_nodes) ==
    \E c \in Range(context_nodes) :
       \E node \in {normalize_node(c)} \cup Range(neighbors(self.graph, normalize_node(c))) :
          ContributesTo(session, node)

\* C38: every record that query(C) returns is relevant to C: the record itself
\* holds a tool use whose node is in C or is a neighbor of a node of C, after
\* any sequence of build and add_session calls, also when an identifier was
\* added again with other content.
C38_ResultsAreRelevant ==
    giLast.op = "query" =>
        \A session \in Range(giLast.ret) : IsRelevant(gi, session, giLast.arg[1])

\* ------------------------------------------------------------------------
\* Claims about the shape of the graph
\* ------------------------------------------------------------------------
IsToolNode(node) == IsPrefix(TOOL_NODE_PREFIX, node)

IsFileNode(node) == IsPrefix(FILE_NODE_PREFIX, node)

IsErrorNode(node) == IsPrefix(ERROR_NODE_PREFIX, node)

\* one of the three shapes an edge can have
EdgeShape(src, dst, rel) ==
    \/ src = dst /\ (IsFileNode(src) \/ IsErrorNode(src)) /\ rel = "self"
    \/ IsFileNode(src) /\ IsToolNode(dst) /\ rel = "accessed_by"
    \/ IsToolNode(src) /\ IsToolNode(dst) /\ rel \in {"led_to_success", "co-occurs"}

IsSessionLine(line) == IsParseable(line) /\ JsonLoads(StripLine(line)).is_dict

\* the session objects of the files, in order
SessionRecords(files) ==
    LET kept == SelectSeq(AllLines(files), IsSessionLine)
    IN  [i \in 1..Len(kept) |-> JsonLoads(StripLine(kept[i])).value]

\* C40: build_index_from_jsonl raises for no file content: a line that is
\* valid JSON but no session object (a number, a string, null, an array) is
\* skipped like a line that is not JSON, and the other lines are indexed.
C40_NonObjectLinesSkipped ==
    giLast.op = "build_index_from_jsonl" =>
        /\ giLast.raised = FALSE
        /\ gi = AddSessions(GraphIndex_init, SessionRecords(giLast.arg))

\* ------------------------------------------------------------------------
\* Claims about overlapping and failing refreshes
\* ------------------------------------------------------------------------
\* C32: when refresh() calls overlap, the state that is installed once they
\* have completed is that of the refresh that invoked discovery last: a
\* refresh that read the logs earlier never overwrites the session list and
\* the index of a refresh that read them later.  The logs only grow, so the
\* list of the last discovery is as long as any list that was installed.
C32_LatestDiscoveryStaysInstalled ==
    AllIdle /\ ~NothingLoaded =>
        /\ \A ref \in hist.publishedLists :
              Len(heapList[ref]) <= Len(heapList[svc_sessions])
        /\ \A ref \in hist.publishedIndexes :
              Cardinality(DOMAIN heapIdx[ref].sessions)
                  <= Cardinality(DOMAIN heapIdx[svc_index].sessions)

\* refresh() of thread t ends by the exception of a collaborator or of build
RefreshRaises(t) == pc[t] \in {"rf_discover", "rf_build"} /\ pc'[t] = "idle"

\* thread t, in sessions() or index(), finds the service unloaded after a
\* failure and goes on
LoadsAgain(t) ==
    /\ hist.raised /\ NothingLoaded
    /\ pc[t] \in {"el_check1", "el_check2"}
    /\ pc'[t] # pc[t]

\* C33: when the discovery or parsing collaborator or the build of the index
\* raises during refresh(), the cached session list, the index, the project
\* count, refresh_count and last_refresh_ms keep their values and the lock is
\* released; a service that is still unloaded attempts the load again at the
\* next sessions() or index() call.
C33_FailedRefreshChangesNothing ==
    [][\A t \in Threads :
          /\ RefreshRaises(t) =>
                /\ cacheVars' = cacheVars
                /\ lockOwner' # t
                /\ lockOwner = t => lockOwner' = NoThread /\ lockDepth' = 0
                /\ lockOwner # t => UNCHANGED lockVars
          /\ LoadsAgain(t) =>
                pc'[t] = (IF pc[t] = "el_check1" THEN "el_check2" ELSE "rf_discover")]_vars

\* a lazy load has failed, and a later call is about to discover again
C33_Witness ==
    /\ hist.raised
    /\ ~hist.explicit
    /\ NothingLoaded
    /\ lockDepth = 1
    /\ \E t \in Threads : pc[t] = "rf_discover" /\ lockOwner = t
    /\ hist.discoverCalls >= 1

\* ------------------------------------------------------------------------
\* Claims about calls that do not load
\* ------------------------------------------------------------------------
ValidationCodes ==
    {"invalid_query", "invalid_max_results", "invalid_context", "invalid_project",
     "invalid_session_id"}

\* the step is a call of meta(), or a call of a tool that answers with one of
\* the validation errors
ValidationFails ==
    /\ calls' = calls + 1
    /\ giLast'.ret # Raised
    /\ \/ giLast'.op = "meta"
       \/ giLast'.op # "meta" /\ ~giLast'.ret.ok
                              /\ giLast'.ret.error.code \in ValidationCodes

\* C34: meta() and every call that fails validation (invalid_query,
\* invalid_max_results, invalid_context, invalid_project, invalid_session_id)
\* leave the state of the service as it is: they do not invoke discovery, do
\* not trigger the lazy load of an unloaded service and do not change
\* refresh_count.
C34_ValidationFailuresLoadNothing ==
    [][ValidationFails =>
          /\ UNCHANGED <<cacheVars, heapVars, nextRef>>
          /\ hist'.discoverCalls = hist.discoverCalls
          /\ hist'.swapsDone = hist.swapsDone]_vars

\* a blank project filter was refused and the service is still unloaded
C34_Witness ==
    /\ giLast.op = "get_project_patterns"
    /\ giLast.ret # Raised
    /\ ~giLast.ret.ok
    /\ giLast.ret.error.code = "invalid_project"
    /\ NothingLoaded
    /\ calls = MaxCalls
    /\ hist.discoverCalls = 0
    /\ giLast.ret.meta.refresh_count = 0

\* C36: after a completed refresh the session_count that meta() reports is
\* the number of sessions in its index_stats: the cached list and the session
\* map of the index hold the same number of sessions, whatever list the
\* parsing collaborator returns, also one in which two sessions share an
\* identifier.
C36_SessionCountIsIndexCount ==
    Returned("refresh_index") =>
        giLast.ret.meta.session_count = giLast.ret.meta.index_stats.sessions

\* ------------------------------------------------------------------------
\* Claims about termination
\* ------------------------------------------------------------------------
\* C35: no interleaving of sessions(), index(), meta() and refresh() calls of
\* the threads on one service deadlocks: when the collaborators return, every
\* call returns in the end; the lazy load, which calls refresh() and then
\* meta() while it holds the lock, completes because the lock is re-entrant.
C35_EveryCallReturns ==
    \A t \in Threads : (pc[t] # "idle") ~> (pc[t] = "idle")

\* a lazy load has run to its end, with refresh() and meta() under the lock
\* of _ensure_loaded, and every call has returned
C35_Witness ==
    /\ AllIdle
    /\ ~hist.explicit
    /\ ~hist.raised
    /\ hist.swapsDone = 1
    /\ hist.accessReturned
    /\ hist.threadsUsed = NumThreads
    /\ lockOwner = NoThread

====
